---------------------------- MODULE Spec2Model ----------------------------
(***************************************************************************)
(* A model of the Orzatty protocol: the varint and frame-header codec      *)
(* (orzatty-core/src/frame.rs), the Framer (orzatty-core/src/framer.rs)    *)
(* and the Governor runtime of the client (orzatty-client/src/easy.rs).    *)
(*                                                                         *)
(* Representation.  TLC's integers are 32 bits wide, so a u64 is the tuple *)
(* of its 8 big-endian bytes (what to_be_bytes yields) and a u32 the tuple *)
(* of its 4 big-endian bytes; comparisons on them are lexicographic, casts *)
(* keep the low bytes.  A byte slice is a sequence of 0..255; the Rust     *)
(* index i is the TLA+ index i+1.                                          *)
(***************************************************************************)
EXTENDS Integers, Sequences, FiniteSets, TLC

VARIABLES
    \* FrameHeader round trip (frame.rs tests): header, buffer, results
    hdrIn, encBuf, encRes, decRes,
    \* varint round trip (frame.rs test_varint): value, buffer, results
    vIn, vBuf, vEnc, vDec,
    \* fuzz target (fuzz_targets/frame_decode.rs): input bytes, results
    fuzzIn, fuzzDec, fuzzEnc,
    \* Framer (framer.rs) on one receive stream
    buffer,     \* Framer.buffer
    unsent,     \* the bytes the peer has still to deliver on the stream
    received,   \* the bytes stream.read has delivered so far
    peerFrames, \* the frames the peer set out to send
    fpc,        \* read_frame: "idle", "reading" (in stream.read), "returned", "closed"
    fret,       \* what the last read_frame call returned
    yielded,    \* what the read_frame calls returned, in order
    callBuf0,   \* the buffer when the current (last) call started
    callReads,  \* the stream reads the current (last) call has made
    \* Governor, outbound (easy.rs: send, writer_loop)
    queue,      \* the messages in the mpsc channel (tx, rx)
    rxClosed,   \* rx has been dropped: the channel is closed
    alive,      \* the EasyClient clones (holders of a tx) not yet dropped
    sender,     \* per clone: its send call and the result of its last one
    nSends,     \* messages the channel has taken or made wait so far
    accepted,   \* the messages accepted into the queue, in order
    nDequeued,  \* messages rx.recv has returned
    wpc,        \* writer_loop: "recv", "write_header", "write_payload", "finish", "done"
    wmsg,       \* writer_loop: msg
    wire,       \* the successful write_all calls on the send half, in order
    finishes,   \* stream.finish calls made
    \* Governor, inbound (easy.rs: reader_loop, on, on_any)
    router,      \* Router: handlers and default_handler
    invocations, \* the handler invocations, in order
    nDispatched, \* frames the reader has dispatched
    \* Client connection setup (lib.rs: OrzattyClient::connect; easy.rs: EasyClient::connect)
    token,      \* the token given to connect
    cpc,        \* OrzattyClient::connect: its position
    c2s,        \* the successful write_all calls on the handshake send half
    cfin,       \* send.finish calls made on the handshake send half
    cret,       \* the result of OrzattyClient::connect
    epc,        \* EasyClient::connect: its position
    session,    \* session streams opened by init_system
    spawned,    \* the tasks init_system has spawned
    eret,       \* the result of EasyClient::connect
    \* Reference server (main.rs: handle_client)
    spc,        \* handle_client: its position
    s2c,        \* the successful write_all calls on the handshake send half
    sret,       \* the error handle_client returned, if it has
    echoStreams, \* the streams the echo loop has accepted and serves
    echoed,      \* the writes of the echo task that went through
    \* The Router's mutex (easy.rs: router: Arc<Mutex<Router>>)
    rlock,      \* who holds the mutex: "free", "reader", or a caller of on / on_any
    reg,        \* per caller: its on / on_any call and the position in it
    rd,         \* reader_loop: the position in the arm Ok(Some(..)), the handler found
    tables,     \* the Router as constructed and as each on / on_any call left it
    returned,   \* the entries of tables whose call has returned
    lastDisp    \* the dispatch the reader actor completed last

codecVars == <<hdrIn, encBuf, encRes, decRes, vIn, vBuf, vEnc, vDec,
               fuzzIn, fuzzDec, fuzzEnc>>
headerVars == <<hdrIn, encBuf, encRes, decRes>>
varintVars == <<vIn, vBuf, vEnc, vDec>>
fuzzVars == <<fuzzIn, fuzzDec, fuzzEnc>>
framerVars == <<buffer, unsent, received, peerFrames, fpc, fret, yielded,
                callBuf0, callReads>>

writerVars == <<queue, rxClosed, alive, sender, nSends, accepted, nDequeued,
                wpc, wmsg, wire, finishes>>
readerVars == <<router, invocations, nDispatched>>
clientVars == <<token, cpc, c2s, cfin, cret, epc, session, spawned, eret>>
serverVars == <<spc, s2c, sret, echoStreams, echoed>>
lockVars == <<rlock, reg, rd, tables, returned, lastDisp>>

vars == <<codecVars, framerVars, writerVars, readerVars, clientVars, serverVars,
          lockVars>>

-----------------------------------------------------------------------------
(* Bit operations on naturals (u8 operands in the source). *)

RECURSIVE BitAnd(_, _)
BitAnd(a, b) ==
    IF a = 0 \/ b = 0 THEN 0
    ELSE (IF a % 2 = 1 /\ b % 2 = 1 THEN 1 ELSE 0) + 2 * BitAnd(a \div 2, b \div 2)

RECURSIVE BitOr(_, _)
BitOr(a, b) ==
    IF a = 0 THEN b
    ELSE IF b = 0 THEN a
    ELSE (IF a % 2 = 1 \/ b % 2 = 1 THEN 1 ELSE 0) + 2 * BitOr(a \div 2, b \div 2)

Byte == 0..255

-----------------------------------------------------------------------------
(* u64 / u32 values as big-endian byte tuples. *)

U64Zero == <<0, 0, 0, 0, 0, 0, 0, 0>>

\* The u64 of a natural below 2^31 (a literal of the source).
U64Lit(n) ==
    <<0, 0, 0, 0, (n \div 16777216) % 256, (n \div 65536) % 256,
      (n \div 256) % 256, n % 256>>

\* a <= b on big-endian tuples of equal length
BytesLe(a, b) ==
    \/ a = b
    \/ \E i \in 1..Len(a) :
          /\ a[i] < b[i]
          /\ \A j \in 1..(i - 1) : a[j] = b[j]

\* `x as u64` for a u32 x
U32AsU64(c) == <<0, 0, 0, 0>> \o c

\* `x as u32` for a u64 x: the low four bytes
U64AsU32(v) == SubSeq(v, 5, 8)

\* `x as u64` of a value rebuilt from 1, 2, 4 or 8 big-endian bytes
BeBytesAsU64(bs) == SubSeq(U64Zero, 1, 8 - Len(bs)) \o bs

-----------------------------------------------------------------------------
(* Results and errors (orzatty-core/src/error.rs). *)

Ok(v) == [tag |-> "Ok", val |-> v]
Err(e) == [tag |-> "Err", err |-> e]
\* An index or a slice out of range: Rust panics.
Panic == [tag |-> "Panic"]
NoResult == [tag |-> "NotYet"]

BufferTooSmall(needed, available) ==
    [kind |-> "BufferTooSmall", needed |-> needed, available |-> available]
IncompleteInput(needed_min, available) ==
    [kind |-> "IncompleteInput", needed_min |-> needed_min, available |-> available]
InvalidVarInt == [kind |-> "InvalidVarInt"]

IsOk(r) == r.tag = "Ok"
IsErr(r) == r.tag = "Err"

\* Whether buf[i] of Rust (i counted from 0) is in range; it panics otherwise.
InRange(buf, i) == i < Len(buf)

\* &buf[from..]
SliceFrom(buf, from) == SubSeq(buf, from + 1, Len(buf))

\* [0u8; n]
Zeros(n) == [i \in 1..n |-> 0]

\* let x = value; body(x): the value is computed once, then used
Bind(value, body(_)) == CHOOSE r \in {body(x) : x \in {value}} : TRUE

\* buf[0..n].copy_from_slice(bytes), n = Len(bytes) <= Len(buf)
CopyToFront(buf, bytes) == bytes \o SubSeq(buf, Len(bytes) + 1, Len(buf))

-----------------------------------------------------------------------------
(* frame.rs: FrameType, FrameFlags, FrameHeader. *)

\* #[repr(u8)] enum FrameType: the variants are their tags.
RawBinary == 0
RkyvAligned == 1
Utf8Text == 2
Unknown == 255
FrameTypes == {RawBinary, RkyvAligned, Utf8Text, Unknown}

\* From<u8> for FrameType taking every unlisted tag for RawBinary
FrameType_from_default_raw(value) ==
    CASE value = 1 -> RkyvAligned
      [] value = 2 -> Utf8Text
      [] OTHER -> RawBinary

\* impl From<u8> for FrameType
FrameType_from(value) ==
    CASE value = 0 -> RawBinary
      [] value = 1 -> RkyvAligned
      [] value = 2 -> Utf8Text
      [] OTHER -> Unknown

\* bitflags FrameFlags: u8; a value is its bits.
CONTROL == 128
PRIORITY == 64
FlagsEmpty == 0
FrameFlagsAll == {FlagsEmpty, CONTROL, PRIORITY, BitOr(CONTROL, PRIORITY)}
FlagsContains(flags, f) == BitAnd(flags, f) = f

FrameHeader(flags, frame_type, channel_id, stream_id, length) ==
    [flags |-> flags, frame_type |-> frame_type, channel_id |-> channel_id,
     stream_id |-> stream_id, length |-> length]

\* encode_varint with the first comparison off by one (v <= 64)
encode_varint_width_off_by_one(v) ==
    IF BytesLe(v, U64Lit(64)) THEN 1
    ELSE IF BytesLe(v, U64Lit(16383)) THEN 2
    ELSE IF BytesLe(v, U64Lit(1073741823)) THEN 4
    ELSE 8

\* encode_varint: the width the if-chain on v selects
encode_varint_width(v) ==
    IF BytesLe(v, U64Lit(63)) THEN 1
    ELSE IF BytesLe(v, U64Lit(16383)) THEN 2
    ELSE IF BytesLe(v, U64Lit(1073741823)) THEN 4
    ELSE 8

\* encode_varint: the bytes each branch writes
\*   v as u8 | (v as u16 | 0x4000) | (v as u32 | 0x80000000)
\*   | (v | 0xC000000000000000), each to_be_bytes
encode_varint_bytes(v, width) ==
    CASE width = 1 -> <<v[8]>>
      [] width = 2 -> <<BitOr(v[7], 64), v[8]>>
      [] width = 4 -> <<BitOr(v[5], 128), v[6], v[7], v[8]>>
      [] OTHER -> [v EXCEPT ![1] = BitOr(@, 192)]

\* encode_varint once the if-chain has selected the width: the length
\* check of the branch and its copy_from_slice
encode_varint_branch(v, buf, width) ==
    IF Len(buf) < width
    THEN [res |-> Err(BufferTooSmall(width, IF width = 1 THEN 0 ELSE Len(buf))),
          buf |-> buf]
    ELSE [res |-> Ok(width),
          buf |-> CopyToFront(buf, encode_varint_bytes(v, width))]

\* fn encode_varint(v: u64, buf: &mut [u8]) -> Result<usize, Error>
\* Yields the result and the slice as the call leaves it.
encode_varint(v, buf) == encode_varint_branch(v, buf, encode_varint_width(v))

\* decode_varint with the length check off by one (buf.len() < length - 1)
decode_varint_short_off_by_one(buf, length) == Len(buf) < length - 1

\* decode_varint: if buf.len() < length { return Err(IncompleteInput ..) }
decode_varint_short(buf, length) == Len(buf) < length

\* decode_varint refusing a value written wider than encode_varint writes it
decode_varint_canonical(buf) ==
    IF Len(buf) = 0 THEN Err(IncompleteInput(1, 0))
    ELSE
        LET first == buf[1]
            prefix == first \div 64
            length == 2 ^ prefix
        IN  IF decode_varint_short(buf, length)
            THEN Err(IncompleteInput(length, Len(buf)))
            ELSE
                LET bytes == [i \in 1..length |->
                                 IF i = 1 THEN BitAnd(buf[1], 63) ELSE buf[i]]
                IN  IF \E i \in 0..(length - 1) : ~InRange(buf, i) THEN Panic
                    ELSE IF encode_varint_width(BeBytesAsU64(bytes)) = length
                    THEN Ok([value |-> BeBytesAsU64(bytes), len |-> length])
                    ELSE Err(InvalidVarInt)

\* fn decode_varint(buf: &[u8]) -> Result<(u64, usize), Error>
decode_varint(buf) ==
    IF Len(buf) = 0 THEN Err(IncompleteInput(1, 0))
    ELSE
        LET first == buf[1]
            prefix == first \div 64
            length == 2 ^ prefix
        IN  IF decode_varint_short(buf, length)
            THEN Err(IncompleteInput(length, Len(buf)))
            ELSE
                \* each arm of the match reads buf[0] .. buf[length - 1]
                LET bytes == [i \in 1..length |->
                                 IF i = 1 THEN BitAnd(buf[1], 63) ELSE buf[i]]
                IN  IF \E i \in 0..(length - 1) : ~InRange(buf, i) THEN Panic
                    ELSE IF length \in {1, 2, 4, 8}
                    THEN Ok([value |-> BeBytesAsU64(bytes), len |-> length])
                    ELSE Err(InvalidVarInt)

\* FrameHeader::encode without the 5-bit mask on the type tag
encode_first_byte_unmasked(h) ==
    LET type_bits == h.frame_type
        b1 == IF FlagsContains(h.flags, CONTROL)
              THEN BitOr(type_bits, 128) ELSE type_bits
    IN  IF FlagsContains(h.flags, PRIORITY) THEN BitOr(b1, 64) ELSE b1

\* FrameHeader::encode: byte 0, the type tag masked to 5 bits and the flags
encode_first_byte(h) ==
    LET type_bits == BitAnd(h.frame_type, 31)
        b1 == IF FlagsContains(h.flags, CONTROL)
              THEN BitOr(type_bits, 128) ELSE type_bits
    IN  IF FlagsContains(h.flags, PRIORITY) THEN BitOr(b1, 64) ELSE b1

\* FrameHeader::encode: offset += encode_varint(v, &mut buf[offset..])?
\* with r the result of the call: the buffer and the offset after it
encode_field_done(r, buf, offset) ==
    [res |-> r.res,
     buf |-> SubSeq(buf, 1, offset) \o r.buf,
     off |-> IF IsOk(r.res) THEN offset + r.res.val ELSE offset]

encode_field(v, buf, offset) ==
    Bind(encode_varint(v, SliceFrom(buf, offset)),
         LAMBDA r : encode_field_done(r, buf, offset))

\* FrameHeader::encode after the length l: Ok(offset)
encode_after_length(l) ==
    IF ~IsOk(l.res) THEN [res |-> l.res, buf |-> l.buf]
    ELSE [res |-> Ok(l.off), buf |-> l.buf]

\* FrameHeader::encode after the stream_id s: the length
encode_after_stream_id(h, s) ==
    IF ~IsOk(s.res) THEN [res |-> s.res, buf |-> s.buf]
    ELSE Bind(encode_field(h.length, s.buf, s.off), encode_after_length)

\* FrameHeader::encode after the channel_id c: the stream_id
encode_after_channel_id(h, c) ==
    IF ~IsOk(c.res) THEN [res |-> c.res, buf |-> c.buf]
    ELSE Bind(encode_field(h.stream_id, c.buf, c.off),
              LAMBDA s : encode_after_stream_id(h, s))

\* FrameHeader::encode(&self, buf) -> Result<usize, Error>
\* Yields the result and the buffer as the call leaves it.
FrameHeader_encode(h, buf) ==
    IF Len(buf) < 1
    THEN [res |-> Err(BufferTooSmall(1, Len(buf))), buf |-> buf]
    ELSE Bind(encode_field(U32AsU64(h.channel_id),
                           CopyToFront(buf, <<encode_first_byte(h)>>), 1),
              LAMBDA c : encode_after_channel_id(h, c))

\* FrameHeader::decode restoring CONTROL only
decode_flags_control_only(first_byte) ==
    IF BitAnd(first_byte, 128) # 0 THEN CONTROL ELSE FlagsEmpty

\* FrameHeader::decode: the flags of the first byte
decode_flags(first_byte) ==
    BitOr(IF BitAnd(first_byte, 128) # 0 THEN CONTROL ELSE FlagsEmpty,
          IF BitAnd(first_byte, 64) # 0 THEN PRIORITY ELSE FlagsEmpty)

\* FrameHeader::decode refusing a channel id that does not fit in 32 bits
decode_after_length_checked(buf, c, s, off2, l) ==
    IF ~IsOk(l) THEN l
    ELSE IF SubSeq(c.val.value, 1, 4) # <<0, 0, 0, 0>> THEN Err(InvalidVarInt)
    ELSE Ok([header |-> FrameHeader(decode_flags(buf[1]),
                                    FrameType_from(BitAnd(buf[1], 31)),
                                    U64AsU32(c.val.value),
                                    s.val.value, l.val.value),
             len |-> off2 + l.val.len])

\* FrameHeader::decode with the three varints decoded: l at offset off2
decode_after_length(buf, c, s, off2, l) ==
    IF ~IsOk(l) THEN l
    ELSE Ok([header |-> FrameHeader(decode_flags(buf[1]),
                                    FrameType_from(BitAnd(buf[1], 31)),
                                    U64AsU32(c.val.value),
                                    s.val.value, l.val.value),
             len |-> off2 + l.val.len])

\* FrameHeader::decode with s decoded at offset off1: offset += len_s and
\* the decode of the length at &buf[offset..]
decode_after_stream_id(buf, c, off1, s) ==
    IF ~IsOk(s) THEN s
    ELSE IF off1 + s.val.len > Len(buf) THEN Panic
    ELSE Bind(decode_varint(SliceFrom(buf, off1 + s.val.len)),
              LAMBDA l : decode_after_length(buf, c, s, off1 + s.val.len, l))

\* FrameHeader::decode with c decoded at offset 1: offset += len_c and
\* the decode of the stream_id at &buf[offset..]
decode_after_channel_id(buf, c) ==
    IF ~IsOk(c) THEN c
    ELSE IF 1 + c.val.len > Len(buf) THEN Panic
    ELSE Bind(decode_varint(SliceFrom(buf, 1 + c.val.len)),
              LAMBDA s : decode_after_stream_id(buf, c, 1 + c.val.len, s))

\* FrameHeader::decode(buf) -> Result<(Self, usize), Error>
FrameHeader_decode(buf) ==
    IF Len(buf) = 0 THEN Err(IncompleteInput(1, 0))
    ELSE Bind(decode_varint(SliceFrom(buf, 1)),
              LAMBDA c : decode_after_channel_id(buf, c))

-----------------------------------------------------------------------------
(* The codec checks as state machines: the inputs are drawn in the initial *)
(* state, the actions apply the functions as the tests and the fuzz target *)
(* do.                                                                     *)

\* The buffer the fuzz target encodes into: [0u8; 64]
FuzzBufLen == 64

\* test_frame_header_encode_decode: header.encode(&mut buf)
HeaderEncode ==
    /\ encRes.tag = "NotYet"
    /\ LET r == FrameHeader_encode(hdrIn, encBuf)
       IN  /\ encRes' = r.res
           /\ encBuf' = r.buf
    /\ UNCHANGED <<hdrIn, decRes>>

\* test_frame_header_encode_decode: FrameHeader::decode(&buf[..written])
HeaderDecode ==
    /\ IsOk(encRes)
    /\ decRes.tag = "NotYet"
    /\ decRes' = FrameHeader_decode(SubSeq(encBuf, 1, encRes.val))
    /\ UNCHANGED <<hdrIn, encBuf, encRes>>

\* test_varint: encode_varint(val, &mut buf)
VarintEncode ==
    /\ vEnc.tag = "NotYet"
    /\ LET r == encode_varint(vIn, vBuf)
       IN  /\ vEnc' = r.res
           /\ vBuf' = r.buf
    /\ UNCHANGED <<vIn, vDec>>

\* test_varint: decode_varint(&buf[..n])
VarintDecode ==
    /\ IsOk(vEnc)
    /\ vDec.tag = "NotYet"
    /\ vDec' = decode_varint(SubSeq(vBuf, 1, vEnc.val))
    /\ UNCHANGED <<vIn, vBuf, vEnc>>

\* fuzz_target: FrameHeader::decode(data)
FuzzDecode ==
    /\ fuzzDec.tag = "NotYet"
    /\ fuzzDec' = FrameHeader_decode(fuzzIn)
    /\ UNCHANGED <<fuzzIn, fuzzEnc>>

\* fuzz_target: if let Ok((header, _)) = ... { header.encode(&mut buf) }
FuzzEncode ==
    /\ IsOk(fuzzDec)
    /\ fuzzEnc.tag = "NotYet"
    /\ LET r == FrameHeader_encode(fuzzDec.val.header, Zeros(FuzzBufLen))
       IN  fuzzEnc' = [res |-> r.res, buf |-> r.buf, tag |-> "Done"]
    /\ UNCHANGED <<fuzzIn, fuzzDec>>


\* FrameHeader::decode(&buf[..n]) for n short of the bytes encode wrote
\* (what parse_frame does while the header is still arriving)
HeaderPrefixDecode ==
    /\ IsOk(encRes)
    /\ fuzzDec.tag = "NotYet"
    /\ \E n \in 0..(encRes.val - 1) :
          /\ fuzzIn' = SubSeq(encBuf, 1, n)
          /\ fuzzDec' = FrameHeader_decode(SubSeq(encBuf, 1, n))
    /\ UNCHANGED <<hdrIn, encBuf, encRes, decRes, fuzzEnc>>

\* FrameHeader::decode of the bytes encode wrote, the first byte replaced
\* by any byte b
HeaderFirstByteDecode ==
    /\ IsOk(encRes)
    /\ fuzzDec.tag = "NotYet"
    /\ \E b \in 0..255 :
          /\ fuzzIn' = <<b>> \o SubSeq(encBuf, 2, encRes.val)
          /\ fuzzDec' = FrameHeader_decode(<<b>> \o SubSeq(encBuf, 2, encRes.val))
    /\ UNCHANGED <<hdrIn, encBuf, encRes, decRes, fuzzEnc>>
-----------------------------------------------------------------------------
(* framer.rs: Framer over a quinn RecvStream. *)

\* let mut temp_buf = vec![0u8; 4096]
ReadBufLen == 4096

\* let mut head_buf = [0u8; 32] of the senders (easy.rs, lib.rs, main.rs)
HeadBufLen == 32

\* &head_buf[..n], n and head_buf the result e of header.encode(&mut head_buf)
HeadSlice(e) == SubSeq(e.buf, 1, e.res.val)

\* `header.length as usize` against buffer.len(): a length of 2^24 or more
\* exceeds every buffer of the model; a smaller one is its low three bytes.
U64Small(v) == \A i \in 1..5 : v[i] = 0
U64ToNat(v) == v[6] * 65536 + v[7] * 256 + v[8]

\* Option / Result values of read_frame and parse_frame
SomeFrame(header, payload) == [tag |-> "Some", header |-> header, payload |-> payload]
NoFrame == [tag |-> "None"]
Failed(msg) == [tag |-> "Err", msg |-> msg]

\* parse_frame with the payload check off by one (buffer.len() > total_len)
payload_buffered_strict(buf, head_len, length) ==
    /\ U64Small(length)
    /\ Len(buf) > head_len + U64ToNat(length)

\* parse_frame: self.buffer.len() >= head_len + payload_len
payload_buffered(buf, head_len, length) ==
    /\ U64Small(length)
    /\ Len(buf) >= head_len + U64ToNat(length)

\* parse_frame clearing the buffer when it yields a frame
parse_frame_match_clear(buf, d) ==
    IF d.tag = "Panic" THEN [res |-> Panic, buf |-> buf]
    ELSE IF IsOk(d) THEN
        LET header == d.val.header
            head_len == d.val.len
        IN  IF payload_buffered(buf, head_len, header.length)
            THEN LET payload_len == U64ToNat(header.length)
                     after_header == SliceFrom(buf, head_len)
                 IN  [res |-> SomeFrame(header, SubSeq(after_header, 1, payload_len)),
                      buf |-> <<>>]
            ELSE [res |-> NoFrame, buf |-> buf]
    ELSE IF d.err.kind = "IncompleteInput" THEN [res |-> NoFrame, buf |-> buf]
    ELSE IF d.err.kind = "BufferTooSmall"
    THEN [res |-> Failed("Unexpected BufferTooSmall error during frame decode"),
          buf |-> buf]
    ELSE [res |-> Failed("Frame header decode error"), buf |-> buf]

\* Framer::parse_frame: the match on d, the result of FrameHeader::decode
parse_frame_match(buf, d) ==
    IF d.tag = "Panic" THEN [res |-> Panic, buf |-> buf]
    ELSE IF IsOk(d) THEN
        LET header == d.val.header
            head_len == d.val.len
        IN  IF payload_buffered(buf, head_len, header.length)
            THEN LET payload_len == U64ToNat(header.length)
                     after_header == SliceFrom(buf, head_len)
                 IN  [res |-> SomeFrame(header, SubSeq(after_header, 1, payload_len)),
                      buf |-> SliceFrom(after_header, payload_len)]
            ELSE [res |-> NoFrame, buf |-> buf]
    ELSE IF d.err.kind = "IncompleteInput" THEN [res |-> NoFrame, buf |-> buf]
    ELSE IF d.err.kind = "BufferTooSmall"
    THEN [res |-> Failed("Unexpected BufferTooSmall error during frame decode"),
          buf |-> buf]
    ELSE [res |-> Failed("Frame header decode error"), buf |-> buf]

\* Framer::parse_frame(&mut self): the result and the buffer it leaves
parse_frame(buf) ==
    IF Len(buf) = 0 THEN [res |-> NoFrame, buf |-> buf]
    ELSE Bind(FrameHeader_decode(buf), LAMBDA d : parse_frame_match(buf, d))

\* read_frame returns ret, leaving the buffer buf.
FramerReturn(ret, buf) ==
    /\ buffer' = buf
    /\ fret' = ret
    /\ yielded' = Append(yielded, ret)
    /\ fpc' = IF ret.tag = "Some" THEN "returned" ELSE "closed"

\* read_frame, step 1 of its loop, with r the result of parse_frame:
\* return the frame found (or the error), or go on to stream.read.
FramerParsed(r) ==
    IF r.res.tag = "None"
    THEN /\ buffer' = r.buf
         /\ fpc' = "reading"
         /\ UNCHANGED <<fret, yielded>>
    ELSE FramerReturn(r.res, r.buf)

\* read_frame, step 1 of its loop on the buffer buf
FramerParse(buf) == \E r \in {parse_frame(buf)} : FramerParsed(r)

\* read_frame reading the stream before it looks at its buffer
read_frame_call_read_first ==
    /\ fpc = "idle"
    /\ callBuf0' = buffer
    /\ callReads' = 0
    /\ fpc' = "reading"
    /\ UNCHANGED <<buffer, fret, yielded, unsent, received, peerFrames>>

\* Framer::read_frame is called: up to its first stream.read
read_frame_call ==
    /\ fpc = "idle"
    /\ callBuf0' = buffer
    /\ callReads' = 0
    /\ FramerParse(buffer)
    /\ UNCHANGED <<unsent, received, peerFrames>>

\* stream.read yields Some(n), n > 0: extend the buffer, parse again
read_frame_some ==
    /\ fpc = "reading"
    /\ \E n \in 1..Len(unsent) :
          /\ n <= ReadBufLen
          /\ unsent' = SliceFrom(unsent, n)
          /\ received' = received \o SubSeq(unsent, 1, n)
          /\ FramerParse(buffer \o SubSeq(unsent, 1, n))
    /\ callReads' = callReads + 1
    /\ UNCHANGED <<peerFrames, callBuf0>>

\* read_frame at the end of the stream, the partial data overlooked
end_of_stream_lenient(buf) == NoFrame

\* read_frame: the arms Some(0) and None of the match on stream.read
end_of_stream(buf) ==
    IF Len(buf) # 0
    THEN Failed("Stream closed with partial frame data")
    ELSE NoFrame

\* stream.read yields None (or Some(0)): the peer finished the stream,
\* having sent what was received so far
read_frame_end ==
    /\ fpc = "reading"
    /\ callReads' = callReads + 1
    /\ FramerReturn(end_of_stream(buffer), buffer)
    /\ UNCHANGED <<unsent, received, peerFrames, callBuf0>>

\* stream.read(..).await? fails: the error is the call's result
read_frame_error ==
    /\ fpc = "reading"
    /\ callReads' = callReads + 1
    /\ FramerReturn(Failed("read error"), buffer)
    /\ UNCHANGED <<unsent, received, peerFrames, callBuf0>>

\* The caller of read_frame takes the frame and calls again
\* (while let Some(..) = framer.read_frame(..)).
caller_loop ==
    /\ fpc = "returned"
    /\ fpc' = "idle"
    /\ UNCHANGED <<buffer, unsent, received, peerFrames, fret, yielded,
                   callBuf0, callReads>>

-----------------------------------------------------------------------------
(* easy.rs: the Governor.  The mpsc channel is tokio's: a bounded FIFO     *)
(* queue; send suspends while it is full and fails once rx is dropped;     *)
(* recv suspends while it is empty and yields None once every tx is        *)
(* dropped and the queue is empty.                                         *)

\* let (tx, rx) = mpsc::channel(64)
GovernorCapacity == 64

\* stream.id().index() of the session stream, the second stream the
\* client opens (the handshake took the first, index 0)
SessionStreamIndex == 1

\* The clones of the EasyClient that call send.
Producers == {1, 2}

OutboundMessage(id, channel_id, data) ==
    [id |-> id, channel_id |-> channel_id, data |-> data]
NoMessage == OutboundMessage(0, <<0, 0, 0, 0>>, <<>>)

\* A clone between send calls: the result of its last call, and whether
\* that call had been suspended
SenderIdle(res, waited) ==
    [pc |-> "idle", msg |-> NoMessage, res |-> res, waited |-> waited, deq0 |-> 0]

\* A clone not made yet, and a clone dropped
SenderAbsent == [pc |-> "absent", msg |-> NoMessage, res |-> "None",
                 waited |-> FALSE, deq0 |-> 0]
SenderDropped == [SenderAbsent EXCEPT !.pc = "dropped"]

\* The channel with no bound on its queue (mpsc::unbounded_channel)
has_capacity_unbounded(q) == TRUE

\* mpsc::channel(64): the queue takes a message while it holds fewer than 64
has_capacity(q) == Len(q) < GovernorCapacity

\* tx.send(..) never seeing the channel closed
tx_closed_never == FALSE

\* tx.send(..) taking the channel for closed once the reader actor has ended
tx_closed_with_reader == rxClosed \/ fpc = "closed"

\* tx.send(..) sees the channel closed once rx has been dropped
tx_closed == rxClosed

\* rx.recv() taking the newest message instead of the oldest
rx_recv_newest(q) == [msg |-> q[Len(q)], rest |-> SubSeq(q, 1, Len(q) - 1)]

\* rx.recv() on a queue that holds a message: the oldest one
rx_recv(q) == [msg |-> Head(q), rest |-> Tail(q)]

\* EasyClient::send(channel_id, data) by clone p, up to its return or its
\* suspension on the full queue
send_call(p, channel_id, data) ==
    /\ p \in alive
    /\ sender[p].pc = "idle"
    /\ LET msg == OutboundMessage(nSends + 1, channel_id, data)
       IN  IF tx_closed
           THEN /\ sender' = [sender EXCEPT ![p] = SenderIdle("Closed", FALSE)]
                /\ UNCHANGED <<queue, accepted, nSends>>
           ELSE IF has_capacity(queue)
           THEN /\ queue' = Append(queue, msg)
                /\ accepted' = Append(accepted, msg)
                /\ nSends' = nSends + 1
                /\ sender' = [sender EXCEPT ![p] = SenderIdle("Ok", FALSE)]
           ELSE /\ sender' = [sender EXCEPT ![p] =
                                 [pc |-> "suspended", msg |-> msg, res |-> "None",
                                  waited |-> FALSE, deq0 |-> nDequeued]]
                /\ nSends' = nSends + 1
                /\ UNCHANGED <<queue, accepted>>
    /\ UNCHANGED <<rxClosed, alive, nDequeued, wpc, wmsg, wire, finishes>>

\* The send suspended in self.tx.send(..).await resumes: the queue has
\* room, or the channel has been closed
send_resume(p) ==
    /\ sender[p].pc = "suspended"
    /\ IF tx_closed
       THEN /\ sender' = [sender EXCEPT ![p] = SenderIdle("Closed", TRUE)]
            /\ UNCHANGED <<queue, accepted>>
       ELSE /\ has_capacity(queue)
            /\ queue' = Append(queue, sender[p].msg)
            /\ accepted' = Append(accepted, sender[p].msg)
            /\ sender' = [sender EXCEPT ![p] = SenderIdle("Ok", TRUE)]
    /\ UNCHANGED <<rxClosed, alive, nSends, nDequeued, wpc, wmsg, wire, finishes>>

\* #[derive(Clone)]: the clone p of the EasyClient makes the clone q
clone_client(p, q) ==
    /\ p \in alive
    /\ sender[q].pc = "absent"
    /\ alive' = alive \cup {q}
    /\ sender' = [sender EXCEPT ![q] = SenderIdle("None", FALSE)]
    /\ UNCHANGED <<queue, rxClosed, nSends, accepted, nDequeued,
                   wpc, wmsg, wire, finishes>>

\* The clone p of the EasyClient is dropped, and its tx with it
drop_client(p) ==
    /\ p \in alive
    /\ sender[p].pc = "idle"
    /\ alive' = alive \ {p}
    /\ sender' = [sender EXCEPT ![p] = SenderDropped]
    /\ UNCHANGED <<queue, rxClosed, nSends, accepted, nDequeued,
                   wpc, wmsg, wire, finishes>>

\* writer_loop: the header of msg
writer_header(msg) ==
    FrameHeader(FlagsEmpty, RawBinary, msg.channel_id,
                U64Lit(SessionStreamIndex), U64Lit(Len(msg.data)))

\* writer_loop encoding into a head_buf of 10 bytes
writer_encode_short_buf(msg) == FrameHeader_encode(writer_header(msg), Zeros(10))

\* writer_loop: header.encode(&mut head_buf); only head_buf[..h_len] is
\* used, so what an earlier message left in head_buf does not matter
writer_encode(msg) == FrameHeader_encode(writer_header(msg), Zeros(HeadBufLen))

\* writer_loop with rx.recv() yielding None as soon as the queue is empty
writer_recv_none_when_empty ==
    /\ wpc = "recv"
    /\ \/ /\ queue # <<>>
          /\ LET r == rx_recv(queue)
             IN  /\ queue' = r.rest
                 /\ nDequeued' = nDequeued + 1
                 /\ IF IsOk(writer_encode(r.msg).res)
                    THEN wpc' = "write_header" /\ wmsg' = r.msg
                    ELSE wpc' = "recv" /\ wmsg' = NoMessage
       \/ /\ queue = <<>>
          /\ wpc' = "finish"
          /\ UNCHANGED <<queue, nDequeued, wmsg>>
    /\ UNCHANGED <<rxClosed, alive, sender, nSends, accepted, wire, finishes>>

\* writer_loop: rx.recv().await yields a message (its header is encoded:
\* on Err the message is skipped) or None (every tx dropped, queue empty)
writer_recv ==
    /\ wpc = "recv"
    /\ \/ /\ queue # <<>>
          /\ LET r == rx_recv(queue)
             IN  /\ queue' = r.rest
                 /\ nDequeued' = nDequeued + 1
                 /\ IF IsOk(writer_encode(r.msg).res)
                    THEN wpc' = "write_header" /\ wmsg' = r.msg
                    ELSE wpc' = "recv" /\ wmsg' = NoMessage
       \/ /\ queue = <<>>
          /\ alive = {}
          /\ wpc' = "finish"
          /\ UNCHANGED <<queue, nDequeued, wmsg>>
    /\ UNCHANGED <<rxClosed, alive, sender, nSends, accepted, wire, finishes>>

\* How many of its bytes a write_all that fails has written: none, or all
\* but the last (the two ends of what a failing write can have written)
CutPoints(bytes) == {0} \cup {n \in {Len(bytes) - 1} : n > 0}

\* write_all(bytes) of message id: all the bytes are written and it returns
\* Ok, or it returns Err having written only the first n of them
write_all_ok(id, part, bytes) == [id |-> id, part |-> part, bytes |-> bytes]
write_all_err(id, bytes, n) == [id |-> id, part |-> "cut", bytes |-> SubSeq(bytes, 1, n)]

\* writer_loop writing all of head_buf (&head_buf)
writer_head_whole_buf(msg) == writer_encode(msg).buf

\* writer_loop: &head_buf[..h_len]
writer_head(msg) == Bind(writer_encode(msg), HeadSlice)

\* writer_loop turning to the next queued message between the header and
\* the payload of the one in hand
writer_write_header_yielding ==
    /\ wpc = "write_header"
    /\ \/ /\ wire' = Append(wire, write_all_ok(wmsg.id, "header", writer_head(wmsg)))
          /\ wpc' = IF queue # <<>> THEN "recv" ELSE "write_payload"
          /\ UNCHANGED wmsg
       \/ /\ \E n \in CutPoints(writer_head(wmsg)) :
                wire' = Append(wire, write_all_err(wmsg.id, writer_head(wmsg), n))
          /\ wpc' = "finish"
          /\ wmsg' = NoMessage
    /\ UNCHANGED <<queue, rxClosed, alive, sender, nSends, accepted, nDequeued,
                   finishes>>

\* writer_loop: stream.write_all(&head_buf[..h_len]).await, Ok or Err (break)
writer_write_header ==
    /\ wpc = "write_header"
    /\ \/ /\ wire' = Append(wire, write_all_ok(wmsg.id, "header", writer_head(wmsg)))
          /\ wpc' = "write_payload"
          /\ UNCHANGED wmsg
       \/ /\ \E n \in CutPoints(writer_head(wmsg)) :
                wire' = Append(wire, write_all_err(wmsg.id, writer_head(wmsg), n))
          /\ wpc' = "finish"
          /\ wmsg' = NoMessage
    /\ UNCHANGED <<queue, rxClosed, alive, sender, nSends, accepted, nDequeued,
                   finishes>>

\* writer_loop going on to the next message when the payload write fails
writer_write_payload_continue ==
    /\ wpc = "write_payload"
    /\ \/ wire' = Append(wire, write_all_ok(wmsg.id, "payload", wmsg.data))
       \/ \E n \in CutPoints(wmsg.data) :
             wire' = Append(wire, write_all_err(wmsg.id, wmsg.data, n))
    /\ wpc' = "recv"
    /\ wmsg' = NoMessage
    /\ UNCHANGED <<queue, rxClosed, alive, sender, nSends, accepted, nDequeued,
                   finishes>>

\* writer_loop: stream.write_all(&msg.data).await, Ok or Err (break)
writer_write_payload ==
    /\ wpc = "write_payload"
    /\ \/ /\ wire' = Append(wire, write_all_ok(wmsg.id, "payload", wmsg.data))
          /\ wpc' = "recv"
       \/ /\ \E n \in CutPoints(wmsg.data) :
                wire' = Append(wire, write_all_err(wmsg.id, wmsg.data, n))
          /\ wpc' = "finish"
    /\ wmsg' = NoMessage
    /\ UNCHANGED <<queue, rxClosed, alive, sender, nSends, accepted, nDequeued,
                   finishes>>

\* writer_loop reporting its end to the send calls that had returned Ok
writer_finish_reports ==
    /\ wpc = "finish"
    /\ finishes' = finishes + 1
    /\ rxClosed' = TRUE
    /\ queue' = <<>>
    /\ wpc' = "done"
    /\ sender' = [p \in Producers |->
                     IF sender[p].pc = "idle" /\ sender[p].res = "Ok"
                     THEN SenderIdle("Closed", sender[p].waited)
                     ELSE sender[p]]
    /\ UNCHANGED <<alive, nSends, accepted, nDequeued, wmsg, wire>>

\* writer_loop: stream.finish().await returns and the function ends: rx is
\* dropped, which closes the channel and discards what it still holds
writer_finish ==
    /\ wpc = "finish"
    /\ finishes' = finishes + 1
    /\ rxClosed' = TRUE
    /\ queue' = <<>>
    /\ wpc' = "done"
    /\ UNCHANGED <<alive, sender, nSends, accepted, nDequeued, wmsg, wire>>

-----------------------------------------------------------------------------
(* easy.rs: the Router, the registration calls and the reader actor, which *)
(* runs the Framer above on the receive half of the session stream.        *)

\* Option<MsgCallback>::None
NoHandler == "none"

\* Router { handlers: HashMap::new(), default_handler: None }
RouterNew == [handlers |-> <<>>, default_handler |-> NoHandler]

\* router.handlers.insert(channel_id, callback)
HashMapInsert(m, k, v) == [x \in (DOMAIN m) \cup {k} |-> IF x = k THEN v ELSE m[x]]

\* EasyClient::on(channel_id, callback), under the router's lock
on(channel_id, callback) ==
    /\ router' = [router EXCEPT !.handlers = HashMapInsert(@, channel_id, callback)]
    /\ UNCHANGED <<invocations, nDispatched>>

\* EasyClient::on_any(callback), under the router's lock
on_any(callback) ==
    /\ router' = [router EXCEPT !.default_handler = callback]
    /\ UNCHANGED <<invocations, nDispatched>>

\* reader_loop dispatching to the default handler as well as to the
\* channel's own
dispatch_both(r, header, payload) ==
    (IF header.channel_id \in DOMAIN r.handlers
     THEN <<[handler |-> r.handlers[header.channel_id], payload |-> payload]>>
     ELSE <<>>)
    \o (IF r.default_handler # NoHandler
        THEN <<[handler |-> r.default_handler, payload |-> payload]>>
        ELSE <<>>)

\* reader_loop: the invocations the arm Ok(Some((header, payload))) makes
\* with the router r locked
dispatch(r, header, payload) ==
    IF header.channel_id \in DOMAIN r.handlers
    THEN <<[handler |-> r.handlers[header.channel_id], payload |-> payload]>>
    ELSE IF r.default_handler # NoHandler
    THEN <<[handler |-> r.default_handler, payload |-> payload]>>
    ELSE <<>>

\* The calls made before the earlier ones
invoke_first(log, calls) == calls \o log

\* (handler)(payload.to_vec()): the calls are made now, after all earlier ones
invoke(log, calls) == log \o calls

\* reader_loop: read_frame returned a frame; lock the router, dispatch
\* the frame, and loop to the next read_frame
reader_dispatch ==
    /\ fpc = "returned"
    /\ invocations' = invoke(invocations, dispatch(router, fret.header, fret.payload))
    /\ nDispatched' = nDispatched + 1
    /\ fpc' = "idle"
    /\ UNCHANGED <<router, buffer, unsent, received, peerFrames, fret, yielded,
                   callBuf0, callReads>>

-----------------------------------------------------------------------------
(* auth.rs: AuthMessage, and its archive.  The archive format is rkyv's;  *)
(* what is modelled of it is that to_bytes writes a tagged, self-         *)
(* delimiting encoding and that from_bytes validates the bytes it is      *)
(* given (#[archive(check_bytes)]) and fails on any others.               *)

AuthHello(tok) == [kind |-> "Hello", text |-> tok]
AuthOk == [kind |-> "Ok", text |-> <<>>]
AuthFail(reason) == [kind |-> "Fail", text |-> reason]

AuthTag(m) == CASE m.kind = "Hello" -> 0 [] m.kind = "Ok" -> 1 [] m.kind = "Fail" -> 2

\* rkyv::to_bytes(&msg)
rkyv_to_bytes(m) == <<AuthTag(m), Len(m.text)>> \o m.text

\* rkyv::from_bytes::<AuthMessage>(&payload): Ok(msg) or Err
rkyv_from_bytes(b) ==
    IF Len(b) < 2 \/ b[2] # Len(b) - 2 THEN Failed("deserialize")
    ELSE IF b[1] = 0 THEN Ok(AuthHello(SliceFrom(b, 2)))
    ELSE IF b[1] = 1 /\ b[2] = 0 THEN Ok(AuthOk)
    ELSE IF b[1] = 2 THEN Ok(AuthFail(SliceFrom(b, 2)))
    ELSE Failed("deserialize")

\* anyhow!(msg, detail)
Anyhow(msg, detail) == [tag |-> "Err", msg |-> msg, detail |-> detail]

\* An error of the transport: connecting, opening or accepting a stream,
\* write_all, finish
TransportError == Anyhow("transport", <<>>)

\* The header of a handshake frame with the given payload
AuthHeader(payload) ==
    FrameHeader(FlagsEmpty, RkyvAligned, <<0, 0, 0, 0>>, U64Zero, U64Lit(Len(payload)))

-----------------------------------------------------------------------------
(* lib.rs: OrzattyClient::connect.  Its Framer is the one above, reading  *)
(* the receive half of the handshake stream.                              *)

\* The connection connect returns
Connection == [tag |-> "Ok", val |-> "connection"]

\* connect: the payload and the encoded header of the Hello frame
hello_bytes(tok) == rkyv_to_bytes(AuthHello(tok))
hello_head(tok) == FrameHeader_encode(AuthHeader(hello_bytes(tok)), Zeros(HeadBufLen))

\* connect returning the connection whatever message the server sent
auth_outcome_any(m) == Connection

\* connect: match resp_msg
auth_outcome(m) ==
    IF m.kind = "Ok" THEN Connection
    ELSE IF m.kind = "Fail" THEN Anyhow("Authentication Failed", m.text)
    ELSE Anyhow("Unexpected auth response", <<>>)

\* connect returns r
connect_return(r) ==
    /\ cret' = r
    /\ cpc' = "done"

\* connect: endpoint.connect(..)?.await?, connection.open_bi().await?,
\* the Hello serialized and its header encoded
connect_open ==
    /\ cpc = "start"
    /\ \/ IF IsOk(hello_head(token).res)
          THEN cpc' = "write_header" /\ UNCHANGED cret
          ELSE connect_return(hello_head(token).res)
       \/ connect_return(TransportError)
    /\ UNCHANGED <<token, c2s, cfin, epc, session, spawned, eret>>

\* connect: send.write_all(&head_buf[..h_len]).await?
connect_write_header ==
    /\ cpc = "write_header"
    /\ \/ /\ c2s' = Append(c2s, HeadSlice(hello_head(token)))
          /\ cpc' = "write_payload"
          /\ UNCHANGED cret
       \/ connect_return(TransportError) /\ UNCHANGED c2s
    /\ UNCHANGED <<token, cfin, epc, session, spawned, eret>>

\* connect: send.write_all(&auth_bytes).await?
connect_write_payload ==
    /\ cpc = "write_payload"
    /\ \/ /\ c2s' = Append(c2s, hello_bytes(token))
          /\ cpc' = "finish"
          /\ UNCHANGED cret
       \/ connect_return(TransportError) /\ UNCHANGED c2s
    /\ UNCHANGED <<token, cfin, epc, session, spawned, eret>>

\* connect: send.finish().await?
connect_finish ==
    /\ cpc = "finish"
    /\ cfin' = cfin + 1
    /\ \/ cpc' = "read" /\ UNCHANGED cret
       \/ connect_return(TransportError)
    /\ UNCHANGED <<token, c2s, epc, session, spawned, eret>>

\* connect: the one call framer.read_frame(&mut recv).await
connect_read_call ==
    /\ cpc = "read"
    /\ yielded = <<>>
    /\ read_frame_call

\* connect: what it makes of the result of read_frame
connect_result ==
    /\ cpc = "read"
    /\ fpc \in {"returned", "closed"}
    /\ connect_return(
          IF fret.tag = "Err" THEN Anyhow(fret.msg, <<>>)
          ELSE IF fret.tag = "None"
          THEN Anyhow("Server closed auth stream before response", <<>>)
          ELSE LET m == rkyv_from_bytes(fret.payload)
               IN  IF IsOk(m) THEN auth_outcome(m.val)
                   ELSE Anyhow("Failed to deserialize auth response", <<>>))
    /\ UNCHANGED <<token, c2s, cfin, epc, session, spawned, eret>>

-----------------------------------------------------------------------------
(* easy.rs: EasyClient::connect and init_system. *)

\* The EasyClient connect returns
Client == [tag |-> "Ok", val |-> "client"]

\* connect returns r
easy_return(r) ==
    /\ eret' = r
    /\ epc' = IF r = Client THEN "running" ELSE "failed"

\* connect: OrzattyClient::new().await? and addr.parse().map_err(..)?
easy_start ==
    /\ epc = "start"
    /\ \/ epc' = "handshake" /\ UNCHANGED eret
       \/ easy_return(TransportError)
       \/ easy_return(Anyhow("Invalid address format", <<>>))
    /\ UNCHANGED <<token, cpc, c2s, cfin, cret, session, spawned>>
    /\ UNCHANGED writerVars

\* The ? on client.connect(..).await passing whatever connect returned
handshake_ok_any(r) == TRUE

\* The ? on client.connect(..).await: go on with the connection, or
\* return the error
handshake_ok(r) == r = Connection

\* connect: client.connect(socket_addr, "localhost", token).await? has
\* returned
easy_handshake ==
    /\ epc = "handshake"
    /\ cpc = "done"
    /\ IF handshake_ok(cret)
       THEN epc' = "init" /\ UNCHANGED eret
       ELSE easy_return(cret)
    /\ UNCHANGED <<token, cpc, c2s, cfin, cret, session, spawned>>
    /\ UNCHANGED writerVars

\* connect: the router and the channel are made, then
\* client.init_system(rx).await?: open_bi().await? opens the session
\* stream, the writer and the reader task are spawned, and the client
\* (the one holder of tx) is returned; or open_bi fails, and client and
\* rx are dropped
init_system ==
    /\ epc = "init"
    /\ \/ /\ session' = session + 1
          /\ spawned' = {"writer", "reader"}
          /\ easy_return(Client)
          /\ alive' = {1}
          /\ sender' = [sender EXCEPT ![1] = SenderIdle("None", FALSE)]
       \/ /\ easy_return(TransportError)
          /\ UNCHANGED <<session, spawned, alive, sender>>
    /\ UNCHANGED <<token, cpc, c2s, cfin, cret>>
    /\ UNCHANGED <<queue, rxClosed, nSends, accepted, nDequeued, wpc, wmsg, wire,
                   finishes>>

-----------------------------------------------------------------------------
(* reference-server/main.rs: handle_client.  Its Framer is the one above,  *)
(* reading the receive half of the handshake stream.                       *)

\* handle_client: the payload and the encoded header of the response
ok_bytes == rkyv_to_bytes(AuthOk)
ok_head == FrameHeader_encode(AuthHeader(ok_bytes), Zeros(HeadBufLen))

\* handle_client returns the error r
server_return(r) ==
    /\ sret' = r
    /\ spc' = "failed"

\* handle_client: conn.await? and connection.accept_bi().await?
server_accept ==
    /\ spc = "accept"
    /\ \/ spc' = "read" /\ UNCHANGED sret
       \/ server_return(TransportError)
    /\ UNCHANGED <<s2c, echoStreams, echoed>>

\* handle_client: the one call framer.read_frame(&mut recv).await
server_read_call ==
    /\ spc = "read"
    /\ yielded = <<>>
    /\ read_frame_call

\* handle_client: what it makes of the result of read_frame: the ? on an
\* error; on None the if let does not match and the echo loop follows; on
\* a frame the payload is deserialized and matched
server_auth ==
    /\ spc = "read"
    /\ fpc \in {"returned", "closed"}
    /\ IF fret.tag = "Err" THEN server_return(Anyhow(fret.msg, <<>>))
       ELSE IF fret.tag = "None" THEN spc' = "echo" /\ UNCHANGED sret
       ELSE LET m == rkyv_from_bytes(fret.payload)
            IN  IF ~IsOk(m)
                THEN server_return(Anyhow("Failed to deserialize auth message", <<>>))
                ELSE IF m.val.kind # "Hello"
                THEN server_return(Anyhow("Expected Auth Hello", <<>>))
                ELSE IF ~IsOk(ok_head.res) THEN server_return(ok_head.res)
                ELSE spc' = "respond_header" /\ UNCHANGED sret
    /\ UNCHANGED <<s2c, echoStreams, echoed>>

\* handle_client: send.write_all(&buf[..n]).await?
server_write_header ==
    /\ spc = "respond_header"
    /\ \/ /\ s2c' = Append(s2c, HeadSlice(ok_head))
          /\ spc' = "respond_payload"
          /\ UNCHANGED sret
       \/ server_return(TransportError) /\ UNCHANGED s2c
    /\ UNCHANGED <<echoStreams, echoed>>

\* handle_client: send.write_all(&resp).await?
server_write_payload ==
    /\ spc = "respond_payload"
    /\ \/ /\ s2c' = Append(s2c, ok_bytes)
          /\ spc' = "echo"
          /\ UNCHANGED sret
       \/ server_return(TransportError) /\ UNCHANGED s2c
    /\ UNCHANGED <<echoStreams, echoed>>

\* handle_client, echo loop: connection.accept_bi().await? and the echo
\* task spawned on the stream
server_accept_echo ==
    /\ spc = "echo"
    /\ \/ /\ echoStreams' = echoStreams + 1
          /\ UNCHANGED <<spc, sret>>
       \/ server_return(TransportError) /\ UNCHANGED echoStreams
    /\ UNCHANGED <<s2c, echoed>>

\* handle_client, the echo task, with e the result of
\* header.encode(&mut buf): unwrap() panics on an error; the two
\* write_all follow, their results ignored (a write that fails writes
\* nothing here)
echo_writes(e, payload) ==
    IF ~IsOk(e.res)
    THEN fpc' = "closed" /\ UNCHANGED echoed
    ELSE /\ fpc' = "idle"
         /\ \/ echoed' = echoed \o <<HeadSlice(e), payload>>
            \/ echoed' = Append(echoed, HeadSlice(e))
            \/ UNCHANGED echoed

\* handle_client, the echo task: the frame read_frame returned is echoed,
\* header then payload, and read_frame is called again
server_echo ==
    /\ fpc = "returned"
    /\ echo_writes(FrameHeader_encode(fret.header, Zeros(HeadBufLen)), fret.payload)
    /\ UNCHANGED <<buffer, unsent, received, peerFrames, fret, yielded, callBuf0,
                   callReads>>
    /\ UNCHANGED <<spc, s2c, sret, echoStreams>>

-----------------------------------------------------------------------------
(* easy.rs: the Router behind its mutex.  on, on_any and the arm           *)
(* Ok(Some(..)) of reader_loop each take router.lock().await first and     *)
(* hold the guard to their end.  The mutex is tokio's: lock().await        *)
(* completes only while no guard is alive.                                 *)

\* The tasks that call on / on_any
Registrants == {"app1", "app2"}

\* A caller between calls, and a caller in the call described by call
RegIdle == [pc |-> "idle", kind |-> "none", channel_id |-> <<0, 0, 0, 0>>,
            callback |-> NoHandler, entry |-> 0]
RegCall(kind, channel_id, callback) ==
    [pc |-> "lock", kind |-> kind, channel_id |-> channel_id,
     callback |-> callback, entry |-> 0]

\* The reader actor outside the arm Ok(Some(..))
ReaderAtRead == [pc |-> "read", found |-> NoHandler, start |-> 0, floor |-> 0]

\* An entry of tables: the Router and the call that left it so
Table(r, kind, channel_id, callback) ==
    [router |-> r, kind |-> kind, channel_id |-> channel_id, callback |-> callback]

\* The largest entry of tables whose call has returned (1, the Router as
\* constructed, when none has)
LastReturned == CHOOSE k \in returned \cup {1} : \A j \in returned : j <= k

\* No dispatch completed yet
NoDispatch == [header |-> FrameHeader(FlagsEmpty, RawBinary, <<0, 0, 0, 0>>,
                                      U64Zero, U64Zero),
               payload |-> <<>>, calls |-> <<>>, start |-> 0, floor |-> 0,
               end |-> 0]

LockIdle ==
    /\ rlock = "free"
    /\ reg = [p \in Registrants |-> RegIdle]
    /\ rd = ReaderAtRead
    /\ tables = <<Table(RouterNew, "new", <<0, 0, 0, 0>>, NoHandler)>>
    /\ returned = {}
    /\ lastDisp = NoDispatch

\* A mutex that excludes no one
mutex_free_always == TRUE

\* Mutex::lock().await completes: no guard is alive
mutex_free == rlock = "free"

\* EasyClient::on(channel_id, callback) is called by p: up to
\* self.router.lock().await
on_call(p, channel_id, callback) ==
    /\ reg[p].pc = "idle"
    /\ reg' = [reg EXCEPT ![p] = RegCall("on", channel_id, callback)]
    /\ UNCHANGED <<rlock, rd, tables, returned, lastDisp, router, invocations,
                   nDispatched>>

\* EasyClient::on_any(callback) is called by p: up to self.router.lock().await
on_any_call(p, callback) ==
    /\ reg[p].pc = "idle"
    /\ reg' = [reg EXCEPT ![p] = RegCall("on_any", <<0, 0, 0, 0>>, callback)]
    /\ UNCHANGED <<rlock, rd, tables, returned, lastDisp, router, invocations,
                   nDispatched>>

\* on / on_any: let mut router = self.router.lock().await
reg_lock(p) ==
    /\ reg[p].pc = "lock"
    /\ mutex_free
    /\ rlock' = p
    /\ reg' = [reg EXCEPT ![p].pc = "write"]
    /\ UNCHANGED <<rd, tables, returned, lastDisp, router, invocations, nDispatched>>

\* on / on_any: the insert or the assignment, and the guard dropped at the
\* end of the function
reg_write(p) ==
    /\ reg[p].pc = "write"
    /\ IF reg[p].kind = "on"
       THEN on(reg[p].channel_id, reg[p].callback)
       ELSE on_any(reg[p].callback)
    /\ tables' = Append(tables, Table(router', reg[p].kind, reg[p].channel_id,
                                      reg[p].callback))
    /\ rlock' = "free"
    /\ reg' = [reg EXCEPT ![p].pc = "return", ![p].entry = Len(tables) + 1]
    /\ UNCHANGED <<rd, returned, lastDisp>>

\* on / on_any: the call returns to p
reg_return(p) ==
    /\ reg[p].pc = "return"
    /\ returned' = returned \cup {reg[p].entry}
    /\ reg' = [reg EXCEPT ![p] = RegIdle]
    /\ UNCHANGED <<rlock, rd, tables, lastDisp, router, invocations, nDispatched>>

\* reader_loop: read_frame returned Ok(Some((header, payload))): the arm
\* is entered, up to router.lock().await
reader_arm ==
    /\ fpc = "returned"
    /\ rd.pc = "read"
    /\ rd' = [pc |-> "lock", found |-> NoHandler, start |-> Len(tables),
              floor |-> LastReturned]
    /\ UNCHANGED <<rlock, reg, tables, returned, lastDisp, router, invocations,
                   nDispatched>>

\* reader_loop: let router = router.lock().await
reader_lock ==
    /\ rd.pc = "lock"
    /\ mutex_free
    /\ rlock' = "reader"
    /\ rd' = [rd EXCEPT !.pc = "get"]
    /\ UNCHANGED <<reg, tables, returned, lastDisp, router, invocations, nDispatched>>

\* reader_loop: if let Some(handler) = router.handlers.get(&header.channel_id)
reader_get ==
    /\ rd.pc = "get"
    /\ IF fret.header.channel_id \in DOMAIN router.handlers
       THEN rd' = [rd EXCEPT !.pc = "call",
                             !.found = router.handlers[fret.header.channel_id]]
       ELSE rd' = [rd EXCEPT !.pc = "default"]
    /\ UNCHANGED <<rlock, reg, tables, returned, lastDisp, router, invocations,
                   nDispatched>>

\* reader_loop: else if let Some(default) = &router.default_handler
reader_default ==
    /\ rd.pc = "default"
    /\ rd' = [rd EXCEPT !.pc = "call", !.found = router.default_handler]
    /\ UNCHANGED <<rlock, reg, tables, returned, lastDisp, router, invocations,
                   nDispatched>>

\* reader_loop: (handler)(payload.to_vec()) if one was found, the guard
\* dropped at the end of the arm, and the loop goes to the next read_frame
reader_call ==
    /\ rd.pc = "call"
    /\ LET calls == IF rd.found = NoHandler THEN <<>>
                    ELSE <<[handler |-> rd.found, payload |-> fret.payload]>>
       IN  /\ invocations' = invoke(invocations, calls)
           /\ lastDisp' = [header |-> fret.header, payload |-> fret.payload,
                           calls |-> calls, start |-> rd.start,
                           floor |-> rd.floor, end |-> Len(tables)]
    /\ nDispatched' = nDispatched + 1
    /\ rlock' = "free"
    /\ rd' = ReaderAtRead
    /\ fpc' = "idle"
    /\ UNCHANGED <<reg, tables, returned, router, buffer, unsent, received,
                   peerFrames, fret, yielded, callBuf0, callReads>>
-----------------------------------------------------------------------------
(* Inputs of the codec checks. *)

\* v + 1 and v - 1 on a big-endian tuple, wrapping, from byte i downwards
RECURSIVE IncAt(_, _)
IncAt(v, i) ==
    IF i = 0 THEN v
    ELSE IF v[i] < 255 THEN [v EXCEPT ![i] = @ + 1]
    ELSE IncAt([v EXCEPT ![i] = 0], i - 1)

RECURSIVE DecAt(_, _)
DecAt(v, i) ==
    IF i = 0 THEN v
    ELSE IF v[i] > 0 THEN [v EXCEPT ![i] = @ - 1]
    ELSE DecAt([v EXCEPT ![i] = 255], i - 1)

RECURSIVE UpFrom(_, _)
UpFrom(v, k) == IF k = 0 THEN {} ELSE {v} \cup UpFrom(IncAt(v, 8), k - 1)

RECURSIVE DownFrom(_, _)
DownFrom(v, k) == IF k = 0 THEN {} ELSE {v} \cup DownFrom(DecAt(v, 8), k - 1)

U64Max == <<255, 255, 255, 255, 255, 255, 255, 255>>
\* 2^62 - 1, the largest value a varint carries
VarintMax == <<63, 255, 255, 255, 255, 255, 255, 255>>

\* The last value of each width, the last u64 included (its successor is 0).
WidthEdges == {U64Lit(63), U64Lit(16383), U64Lit(1073741823), VarintMax, U64Max}

\* The k values up to each edge and the k values after it.
NearEdges(k) == UNION {DownFrom(e, k) \cup UpFrom(IncAt(e, 8), k) : e \in WidthEdges}

VarintSpread == 2
MaxVarintBuf == 9
HeaderSpread == 1

VarintInputs == NearEdges(VarintSpread)

ChannelInputs == {U64AsU32(U64Lit(n)) : n \in {0, 64, 16384, 1073741824}}
                     \cup {<<255, 255, 255, 255>>}
LengthInputs == {U64Lit(0), U64Lit(64), VarintMax, IncAt(VarintMax, 8)}
HeadBufLens == {0, 1, 3, 4, 10, 24, 25, 32}

HeaderInputs ==
    {FrameHeader(f, t, c, s, l) :
        f \in FrameFlagsAll, t \in FrameTypes, c \in ChannelInputs,
        s \in NearEdges(HeaderSpread), l \in LengthInputs}

\* The headers whose three varints follow the first byte under test
PlainHeaderInputs ==
    {h \in HeaderInputs : h.flags = FlagsEmpty /\ h.frame_type = RawBinary}

\* Chunks the fuzz inputs are built from: single bytes, canonical and
\* non-canonical varints of each width.
FuzzChunks ==
    { <<0>>, <<63>>, <<226>>, <<64, 1>>, <<128, 0, 64, 0>>,
      <<192, 0, 0, 0, 0, 0, 0, 9>>,
      <<255, 255, 255, 255, 255, 255, 255, 255>> }
MaxFuzzChunks == 4

RECURSIVE ChunkConcats(_)
ChunkConcats(k) ==
    IF k = 0 THEN {<<>>}
    ELSE LET shorter == ChunkConcats(k - 1)
         IN  shorter \cup {b \o c : b \in shorter, c \in FuzzChunks}

\* A frame as its sender writes it: header.encode(&mut head_buf), then
\* write_all(&head_buf[..h_len]) and write_all(payload).
EncodeFrame(f) ==
    HeadSlice(FrameHeader_encode(f.header, Zeros(HeadBufLen))) \o f.payload

RECURSIVE EncodeFrames(_)
EncodeFrames(fs) ==
    IF fs = <<>> THEN <<>> ELSE EncodeFrame(Head(fs)) \o EncodeFrames(Tail(fs))

\* The frames of the model: an empty payload, a two-byte payload, and a
\* control frame of another type on a channel whose id takes two bytes.
U32Lit(n) == U64AsU32(U64Lit(n))
Frame(flags, frame_type, channel, stream, payload) ==
    [header |-> FrameHeader(flags, frame_type, U32Lit(channel), U64Lit(stream),
                            U64Lit(Len(payload))),
     payload |-> payload]
FrameInputs ==
    { Frame(FlagsEmpty, RawBinary, 7, 0, <<>>),
      Frame(FlagsEmpty, RawBinary, 7, 0, <<112, 105>>),
      Frame(CONTROL, Utf8Text, 300, 4, <<33>>) }
MaxFrames == 2

RECURSIVE SeqsUpTo(_, _)
SeqsUpTo(S, k) ==
    IF k = 0 THEN {<<>>}
    ELSE LET shorter == SeqsUpTo(S, k - 1)
         IN  shorter \cup {Append(q, x) : q \in shorter, x \in S}


\* The send calls of the Governor: how many, on which channels, with which data
MaxSends == 3
SendChannels == {U32Lit(7), U32Lit(300)}
SendPayloads == {<<>>, <<112, 105>>}

\* The send calls made beyond the capacity of the queue
ExtraSends == 2

\* The frames the peer sends to the reader actor: an empty payload on one
\* channel, a payload of one byte on another
ReaderFrameInputs ==
    { Frame(FlagsEmpty, RawBinary, 7, 0, <<>>),
      Frame(CONTROL, Utf8Text, 300, 4, <<33>>) }

\* The channels handlers are registered for (those of ReaderFrameInputs),
\* the callbacks registered for a channel and those registered as default
RouterChannels == {U32Lit(7), U32Lit(300)}
Callbacks == {"a", "b"}
DefaultCallbacks == {"d"}

\* The tokens given to connect: none, and "abc"
Tokens == {<<>>, <<97, 98, 99>>}

\* A frame of the handshake stream with the given payload
AuthFrame(payload) == [header |-> AuthHeader(payload), payload |-> payload]

\* The frames a server may answer the Hello with: Ok, Fail{"no"},
\* Hello{"a"}, a payload that is no archive, and Ok under a header that is
\* not a handshake frame's
ResponseFrames ==
    { AuthFrame(rkyv_to_bytes(AuthOk)),
      AuthFrame(rkyv_to_bytes(AuthFail(<<110, 111>>))),
      AuthFrame(rkyv_to_bytes(AuthHello(<<97>>))),
      AuthFrame(<<9>>),
      Frame(PRIORITY, RawBinary, 7, 4, rkyv_to_bytes(AuthOk)) }

\* The messages sent once the client is connected: how many, and which
SetupSends == 1
Ping == <<112, 105, 110, 103>>

\* The frames a peer may open the handshake stream with: Hello{"abc"},
\* Hello{""}, Ok, and a payload that is no archive
RequestFrames ==
    { AuthFrame(rkyv_to_bytes(AuthHello(<<97, 98, 99>>))),
      AuthFrame(rkyv_to_bytes(AuthHello(<<>>))),
      AuthFrame(rkyv_to_bytes(AuthOk)),
      AuthFrame(<<9>>) }

\* The streams the echo loop accepts
MaxEchoStreams == 2
-----------------------------------------------------------------------------
(* Initial states and specifications. *)

HeaderIdle ==
    /\ hdrIn = FrameHeader(FlagsEmpty, RawBinary, <<0, 0, 0, 0>>, U64Zero, U64Zero)
    /\ encBuf = <<>>
    /\ encRes = NoResult
    /\ decRes = NoResult

VarintIdle ==
    /\ vIn = U64Zero
    /\ vBuf = <<>>
    /\ vEnc = NoResult
    /\ vDec = NoResult

FuzzIdle ==
    /\ fuzzIn = <<>>
    /\ fuzzDec = NoResult
    /\ fuzzEnc = NoResult


FramerIdle ==
    /\ buffer = <<>>
    /\ unsent = <<>>
    /\ received = <<>>
    /\ peerFrames = <<>>
    /\ fpc = "idle"
    /\ fret = NoResult
    /\ yielded = <<>>
    /\ callBuf0 = <<>>
    /\ callReads = 0

WriterIdle ==
    /\ queue = <<>>
    /\ rxClosed = FALSE
    /\ alive = {}
    /\ sender = [p \in Producers |-> SenderAbsent]
    /\ nSends = 0
    /\ accepted = <<>>
    /\ nDequeued = 0
    /\ wpc = "recv"
    /\ wmsg = NoMessage
    /\ wire = <<>>
    /\ finishes = 0

ReaderIdle ==
    /\ router = RouterNew
    /\ invocations = <<>>
    /\ nDispatched = 0

ClientIdle ==
    /\ token = <<>>
    /\ cpc = "start"
    /\ c2s = <<>>
    /\ cfin = 0
    /\ cret = NoResult
    /\ epc = "start"
    /\ session = 0
    /\ spawned = {}
    /\ eret = NoResult

ServerIdle ==
    /\ spc = "accept"
    /\ s2c = <<>>
    /\ sret = NoResult
    /\ echoStreams = 0
    /\ echoed = <<>>

InitHeader ==
    /\ hdrIn \in HeaderInputs
    /\ encBuf \in {Zeros(n) : n \in HeadBufLens}
    /\ encRes = NoResult
    /\ decRes = NoResult
    /\ VarintIdle /\ FuzzIdle /\ FramerIdle /\ WriterIdle /\ ReaderIdle /\ ClientIdle /\ ServerIdle /\ LockIdle

NextHeader ==
    \/ HeaderEncode /\ UNCHANGED <<varintVars, fuzzVars, framerVars, writerVars, readerVars, clientVars, serverVars, lockVars>>
    \/ HeaderDecode /\ UNCHANGED <<varintVars, fuzzVars, framerVars, writerVars, readerVars, clientVars, serverVars, lockVars>>

SpecHeader == InitHeader /\ [][NextHeader]_vars

\* A header is encoded into a buffer of 32 bytes, then a proper prefix of
\* the bytes written is decoded
InitPrefix ==
    /\ hdrIn \in HeaderInputs
    /\ encBuf = Zeros(HeadBufLen)
    /\ encRes = NoResult
    /\ decRes = NoResult
    /\ FuzzIdle
    /\ VarintIdle /\ FramerIdle /\ WriterIdle /\ ReaderIdle /\ ClientIdle /\ ServerIdle /\ LockIdle

NextPrefix ==
    \/ HeaderEncode /\ UNCHANGED <<varintVars, fuzzVars, framerVars, writerVars, readerVars, clientVars, serverVars, lockVars>>
    \/ HeaderPrefixDecode /\ UNCHANGED <<varintVars, framerVars, writerVars, readerVars, clientVars, serverVars, lockVars>>

SpecPrefix == InitPrefix /\ [][NextPrefix]_vars

\* A header is encoded into a buffer of 32 bytes, then the bytes written
\* are decoded with another first byte
InitFirstByte ==
    /\ hdrIn \in PlainHeaderInputs
    /\ encBuf = Zeros(HeadBufLen)
    /\ encRes = NoResult
    /\ decRes = NoResult
    /\ FuzzIdle
    /\ VarintIdle /\ FramerIdle /\ WriterIdle /\ ReaderIdle /\ ClientIdle /\ ServerIdle /\ LockIdle

NextFirstByte ==
    \/ HeaderEncode /\ UNCHANGED <<varintVars, fuzzVars, framerVars, writerVars, readerVars, clientVars, serverVars, lockVars>>
    \/ HeaderFirstByteDecode /\ UNCHANGED <<varintVars, framerVars, writerVars, readerVars, clientVars, serverVars, lockVars>>

SpecFirstByte == InitFirstByte /\ [][NextFirstByte]_vars

InitVarint ==
    /\ vIn \in VarintInputs
    /\ vBuf \in {Zeros(n) : n \in 0..MaxVarintBuf}
    /\ vEnc = NoResult
    /\ vDec = NoResult
    /\ HeaderIdle /\ FuzzIdle /\ FramerIdle /\ WriterIdle /\ ReaderIdle /\ ClientIdle /\ ServerIdle /\ LockIdle

NextVarint ==
    \/ VarintEncode /\ UNCHANGED <<headerVars, fuzzVars, framerVars, writerVars, readerVars, clientVars, serverVars, lockVars>>
    \/ VarintDecode /\ UNCHANGED <<headerVars, fuzzVars, framerVars, writerVars, readerVars, clientVars, serverVars, lockVars>>

SpecVarint == InitVarint /\ [][NextVarint]_vars

\* The input is any prefix of any concatenation of at most MaxFuzzChunks chunks.
InitFuzz ==
    /\ \E b \in ChunkConcats(MaxFuzzChunks) :
          \E n \in 0..Len(b) : fuzzIn = SubSeq(b, 1, n)
    /\ fuzzDec = NoResult
    /\ fuzzEnc = NoResult
    /\ HeaderIdle /\ VarintIdle /\ FramerIdle /\ WriterIdle /\ ReaderIdle /\ ClientIdle /\ ServerIdle /\ LockIdle

NextFuzz ==
    \/ FuzzDecode /\ UNCHANGED <<headerVars, varintVars, framerVars, writerVars, readerVars, clientVars, serverVars, lockVars>>
    \/ FuzzEncode /\ UNCHANGED <<headerVars, varintVars, framerVars, writerVars, readerVars, clientVars, serverVars, lockVars>>

SpecFuzz == InitFuzz /\ [][NextFuzz]_vars

\* Framer::new() on a fresh stream on which the peer will send peerFrames
InitFramer ==
    /\ peerFrames \in SeqsUpTo(FrameInputs, MaxFrames)
    /\ unsent = EncodeFrames(peerFrames)
    /\ buffer = <<>>
    /\ received = <<>>
    /\ fpc = "idle"
    /\ fret = NoResult
    /\ yielded = <<>>
    /\ callBuf0 = <<>>
    /\ callReads = 0
    /\ HeaderIdle /\ VarintIdle /\ FuzzIdle /\ WriterIdle /\ ReaderIdle /\ ClientIdle /\ ServerIdle /\ LockIdle

NextFramer ==
    \/ read_frame_call /\ UNCHANGED <<codecVars, writerVars, readerVars, clientVars, serverVars, lockVars>>
    \/ read_frame_some /\ UNCHANGED <<codecVars, writerVars, readerVars, clientVars, serverVars, lockVars>>
    \/ read_frame_end /\ UNCHANGED <<codecVars, writerVars, readerVars, clientVars, serverVars, lockVars>>
    \/ read_frame_error /\ UNCHANGED <<codecVars, writerVars, readerVars, clientVars, serverVars, lockVars>>
    \/ caller_loop /\ UNCHANGED <<codecVars, writerVars, readerVars, clientVars, serverVars, lockVars>>

SpecFramer == InitFramer /\ [][NextFramer]_vars


\* EasyClient::connect has returned: the channel is empty, the client holds
\* the one tx, the writer actor is at its first rx.recv()
InitWriter ==
    /\ queue = <<>>
    /\ rxClosed = FALSE
    /\ alive = {1}
    /\ sender = [p \in Producers |-> IF p = 1 THEN SenderIdle("None", FALSE)
                                     ELSE SenderAbsent]
    /\ nSends = 0
    /\ accepted = <<>>
    /\ nDequeued = 0
    /\ wpc = "recv"
    /\ wmsg = NoMessage
    /\ wire = <<>>
    /\ finishes = 0
    /\ HeaderIdle /\ VarintIdle /\ FuzzIdle /\ FramerIdle /\ ReaderIdle /\ ClientIdle /\ ServerIdle /\ LockIdle

\* The steps of the clones, the messages taken being at most maxSends, on
\* the channels chans and with the payloads datas
SendSteps(maxSends, chans, datas) ==
    \/ /\ nSends < maxSends
       /\ \E p \in Producers, ch \in chans, d \in datas : send_call(p, ch, d)
       /\ UNCHANGED <<codecVars, framerVars, readerVars, clientVars, serverVars, lockVars>>
    \/ (\E p, q \in Producers : clone_client(p, q))
          /\ UNCHANGED <<codecVars, framerVars, readerVars, clientVars, serverVars, lockVars>>
    \/ (\E p \in Producers : drop_client(p))
          /\ UNCHANGED <<codecVars, framerVars, readerVars, clientVars, serverVars, lockVars>>

\* The steps of the writer actor
WriterSteps ==
    \/ writer_recv /\ UNCHANGED <<codecVars, framerVars, readerVars, clientVars, serverVars, lockVars>>
    \/ writer_write_header /\ UNCHANGED <<codecVars, framerVars, readerVars, clientVars, serverVars, lockVars>>
    \/ writer_write_payload /\ UNCHANGED <<codecVars, framerVars, readerVars, clientVars, serverVars, lockVars>>
    \/ writer_finish /\ UNCHANGED <<codecVars, framerVars, readerVars, clientVars, serverVars, lockVars>>

\* A few sends of varied messages.  With MaxSends below the capacity of
\* the queue no send call is ever suspended, so there is no step of
\* send_resume to take.
NextGovernor ==
    \/ SendSteps(MaxSends, SendChannels, SendPayloads)
    \/ WriterSteps

SpecGovernor == InitWriter /\ [][NextGovernor]_vars

\* The writer actor can take a step: a write or finish is under way, or
\* rx.recv() has something to return (a message, or None when every
\* clone is dropped and the queue is empty).  This is ENABLED WriterSteps.
writer_ready ==
    \/ wpc \in {"write_header", "write_payload", "finish"}
    \/ wpc = "recv" /\ (queue # <<>> \/ alive = {})

\* A step of the writer actor, told by what every step of WriterSteps
\* changes and no step of a clone does: the actor's position or the count
\* of messages it has dequeued
writer_turn ==
    /\ writer_ready
    /\ wpc' \in {"recv", "write_header", "write_payload", "finish", "done"}
    /\ nDequeued' \in {nDequeued, nDequeued + 1}
    /\ <<wpc, nDequeued>>' # <<wpc, nDequeued>>

\* The writer actor is a spawned task: the runtime polls it whenever it
\* can take a step
SpecWriter ==
    /\ InitWriter
    /\ [][NextGovernor]_vars
    /\ WF_<<wpc, nDequeued>>(writer_turn)

\* Enough sends of one message to fill the queue and go ExtraSends beyond
NextBackpressure ==
    \/ SendSteps(GovernorCapacity + ExtraSends, {U32Lit(7)}, {<<>>})
    \/ (\E p \in Producers : send_resume(p))
          /\ UNCHANGED <<codecVars, framerVars, readerVars, clientVars, serverVars, lockVars>>
    \/ WriterSteps

\* A send suspended in tx.send(..).await is woken when the queue gets room
\* or the channel is closed, and the runtime then polls it
SpecBackpressure ==
    /\ InitWriter
    /\ [][NextBackpressure]_vars
    /\ \A p \in Producers :
          WF_vars(send_resume(p) /\ UNCHANGED <<codecVars, framerVars, readerVars, clientVars, serverVars, lockVars>>)

\* EasyClient::connect has returned: the router is empty, the reader actor
\* is at its first read_frame on the stream on which the peer will send
\* peerFrames
InitReader ==
    /\ peerFrames \in SeqsUpTo(ReaderFrameInputs, MaxFrames)
    /\ unsent = EncodeFrames(peerFrames)
    /\ buffer = <<>>
    /\ received = <<>>
    /\ fpc = "idle"
    /\ fret = NoResult
    /\ yielded = <<>>
    /\ callBuf0 = <<>>
    /\ callReads = 0
    /\ router = RouterNew
    /\ invocations = <<>>
    /\ nDispatched = 0
    /\ HeaderIdle /\ VarintIdle /\ FuzzIdle /\ WriterIdle /\ ClientIdle /\ ServerIdle /\ LockIdle

NextReader ==
    \/ read_frame_call /\ UNCHANGED <<codecVars, writerVars, readerVars, clientVars, serverVars, lockVars>>
    \/ read_frame_some /\ UNCHANGED <<codecVars, writerVars, readerVars, clientVars, serverVars, lockVars>>
    \/ read_frame_end /\ UNCHANGED <<codecVars, writerVars, readerVars, clientVars, serverVars, lockVars>>
    \/ read_frame_error /\ UNCHANGED <<codecVars, writerVars, readerVars, clientVars, serverVars, lockVars>>
    \/ reader_dispatch /\ UNCHANGED <<codecVars, writerVars, clientVars, serverVars, lockVars>>
    \/ (\E ch \in RouterChannels, cb \in Callbacks : on(ch, cb))
          /\ UNCHANGED <<codecVars, writerVars, framerVars, clientVars, serverVars, lockVars>>
    \/ (\E cb \in DefaultCallbacks : on_any(cb))
          /\ UNCHANGED <<codecVars, writerVars, framerVars, clientVars, serverVars, lockVars>>

SpecReader == InitReader /\ [][NextReader]_vars

\* OrzattyClient::connect is called with a token; the server will answer on
\* the handshake stream with peerFrames (as much of them as it sends
\* before it closes the stream)
InitHandshake ==
    /\ token \in Tokens
    /\ cpc = "start"
    /\ c2s = <<>>
    /\ cfin = 0
    /\ cret = NoResult
    /\ epc = "start"
    /\ session = 0
    /\ spawned = {}
    /\ eret = NoResult
    /\ peerFrames \in SeqsUpTo(ResponseFrames, MaxFrames)
    /\ unsent = EncodeFrames(peerFrames)
    /\ buffer = <<>>
    /\ received = <<>>
    /\ fpc = "idle"
    /\ fret = NoResult
    /\ yielded = <<>>
    /\ callBuf0 = <<>>
    /\ callReads = 0
    /\ HeaderIdle /\ VarintIdle /\ FuzzIdle /\ WriterIdle /\ ReaderIdle /\ ServerIdle /\ LockIdle

NextHandshake ==
    \/ connect_open /\ UNCHANGED <<codecVars, framerVars, writerVars, readerVars, serverVars, lockVars>>
    \/ connect_write_header
          /\ UNCHANGED <<codecVars, framerVars, writerVars, readerVars, serverVars, lockVars>>
    \/ connect_write_payload
          /\ UNCHANGED <<codecVars, framerVars, writerVars, readerVars, serverVars, lockVars>>
    \/ connect_finish /\ UNCHANGED <<codecVars, framerVars, writerVars, readerVars, serverVars, lockVars>>
    \/ connect_read_call
          /\ UNCHANGED <<codecVars, writerVars, readerVars, clientVars, serverVars, lockVars>>
    \/ (cpc = "read" /\ read_frame_some)
          /\ UNCHANGED <<codecVars, writerVars, readerVars, clientVars, serverVars, lockVars>>
    \/ (cpc = "read" /\ read_frame_end)
          /\ UNCHANGED <<codecVars, writerVars, readerVars, clientVars, serverVars, lockVars>>
    \/ (cpc = "read" /\ read_frame_error)
          /\ UNCHANGED <<codecVars, writerVars, readerVars, clientVars, serverVars, lockVars>>
    \/ connect_result /\ UNCHANGED <<codecVars, framerVars, writerVars, readerVars, serverVars, lockVars>>

SpecHandshake == InitHandshake /\ [][NextHandshake]_vars

\* EasyClient::connect is called with a token; the server will answer the
\* Hello with at most one of the response frames.  The channel and the
\* client do not exist yet.
InitEasyConnect ==
    /\ token \in Tokens
    /\ cpc = "start"
    /\ c2s = <<>>
    /\ cfin = 0
    /\ cret = NoResult
    /\ epc = "start"
    /\ session = 0
    /\ spawned = {}
    /\ eret = NoResult
    /\ peerFrames \in {<<>>} \cup {<<f>> : f \in ResponseFrames}
    /\ unsent = EncodeFrames(peerFrames)
    /\ buffer = <<>>
    /\ received = <<>>
    /\ fpc = "idle"
    /\ fret = NoResult
    /\ yielded = <<>>
    /\ callBuf0 = <<>>
    /\ callReads = 0
    /\ WriterIdle
    /\ HeaderIdle /\ VarintIdle /\ FuzzIdle /\ ReaderIdle /\ ServerIdle /\ LockIdle

\* The steps of OrzattyClient::connect once EasyClient::connect has called it
HandshakeSteps ==
    \/ (epc = "handshake" /\ connect_open)
          /\ UNCHANGED <<codecVars, framerVars, writerVars, readerVars, serverVars, lockVars>>
    \/ connect_write_header
          /\ UNCHANGED <<codecVars, framerVars, writerVars, readerVars, serverVars, lockVars>>
    \/ connect_write_payload
          /\ UNCHANGED <<codecVars, framerVars, writerVars, readerVars, serverVars, lockVars>>
    \/ connect_finish /\ UNCHANGED <<codecVars, framerVars, writerVars, readerVars, serverVars, lockVars>>
    \/ connect_read_call
          /\ UNCHANGED <<codecVars, writerVars, readerVars, clientVars, serverVars, lockVars>>
    \/ (cpc = "read" /\ read_frame_some)
          /\ UNCHANGED <<codecVars, writerVars, readerVars, clientVars, serverVars, lockVars>>
    \/ (cpc = "read" /\ read_frame_end)
          /\ UNCHANGED <<codecVars, writerVars, readerVars, clientVars, serverVars, lockVars>>
    \/ (cpc = "read" /\ read_frame_error)
          /\ UNCHANGED <<codecVars, writerVars, readerVars, clientVars, serverVars, lockVars>>
    \/ connect_result /\ UNCHANGED <<codecVars, framerVars, writerVars, readerVars, serverVars, lockVars>>

\* The steps of EasyClient::connect
EasyConnectSteps ==
    \/ easy_start /\ UNCHANGED <<codecVars, framerVars, readerVars, serverVars, lockVars>>
    \/ easy_handshake /\ UNCHANGED <<codecVars, framerVars, readerVars, serverVars, lockVars>>
    \/ init_system /\ UNCHANGED <<codecVars, framerVars, readerVars, serverVars, lockVars>>

\* The steps of the writer actor once it is spawned
SpawnedWriterSteps ==
    \/ ("writer" \in spawned /\ writer_recv)
          /\ UNCHANGED <<codecVars, framerVars, readerVars, clientVars, serverVars, lockVars>>
    \/ ("writer" \in spawned /\ writer_write_header)
          /\ UNCHANGED <<codecVars, framerVars, readerVars, clientVars, serverVars, lockVars>>
    \/ ("writer" \in spawned /\ writer_write_payload)
          /\ UNCHANGED <<codecVars, framerVars, readerVars, clientVars, serverVars, lockVars>>
    \/ ("writer" \in spawned /\ writer_finish)
          /\ UNCHANGED <<codecVars, framerVars, readerVars, clientVars, serverVars, lockVars>>

\* EasyClient::connect, and then up to SetupSends sends of "ping" on
\* channel 7 by the client and its clones.  The reader actor, once
\* spawned, has no step here.
NextEasyConnect ==
    \/ EasyConnectSteps
    \/ HandshakeSteps
    \/ SendSteps(SetupSends, {U32Lit(7)}, {Ping})
    \/ SpawnedWriterSteps

SpecEasyConnect == InitEasyConnect /\ [][NextEasyConnect]_vars

\* handle_client is called on a new connection; the peer will send
\* peerFrames on the handshake stream (as much of them as it sends before
\* it closes the stream)
InitServer ==
    /\ spc = "accept"
    /\ s2c = <<>>
    /\ sret = NoResult
    /\ echoStreams = 0
    /\ echoed = <<>>
    /\ peerFrames \in SeqsUpTo(RequestFrames, MaxFrames)
    /\ unsent = EncodeFrames(peerFrames)
    /\ buffer = <<>>
    /\ received = <<>>
    /\ fpc = "idle"
    /\ fret = NoResult
    /\ yielded = <<>>
    /\ callBuf0 = <<>>
    /\ callReads = 0
    /\ HeaderIdle /\ VarintIdle /\ FuzzIdle /\ WriterIdle /\ ReaderIdle /\ ClientIdle /\ LockIdle

\* The steps of the handshake in handle_client
ServerHandshakeSteps ==
    \/ server_accept /\ UNCHANGED <<codecVars, framerVars, writerVars, readerVars, clientVars, lockVars>>
    \/ server_read_call
          /\ UNCHANGED <<codecVars, writerVars, readerVars, clientVars, serverVars, lockVars>>
    \/ (spc = "read" /\ read_frame_some)
          /\ UNCHANGED <<codecVars, writerVars, readerVars, clientVars, serverVars, lockVars>>
    \/ (spc = "read" /\ read_frame_end)
          /\ UNCHANGED <<codecVars, writerVars, readerVars, clientVars, serverVars, lockVars>>
    \/ (spc = "read" /\ read_frame_error)
          /\ UNCHANGED <<codecVars, writerVars, readerVars, clientVars, serverVars, lockVars>>
    \/ server_auth /\ UNCHANGED <<codecVars, framerVars, writerVars, readerVars, clientVars, lockVars>>
    \/ server_write_header
          /\ UNCHANGED <<codecVars, framerVars, writerVars, readerVars, clientVars, lockVars>>
    \/ server_write_payload
          /\ UNCHANGED <<codecVars, framerVars, writerVars, readerVars, clientVars, lockVars>>

NextServer ==
    \/ ServerHandshakeSteps
    \/ (echoStreams < MaxEchoStreams /\ server_accept_echo)
          /\ UNCHANGED <<codecVars, framerVars, writerVars, readerVars, clientVars, lockVars>>

SpecServer == InitServer /\ [][NextServer]_vars

\* The on / on_any calls made while the reader actor runs: how many, and
\* with which handlers (two for one channel, two default ones)
MaxRegs == 2
RegChannels == {U32Lit(7)}
RegDefaultCallbacks == {"d", "e"}

\* The frames the peer sends meanwhile: one on a channel that never has a
\* handler, then one on the channel the handlers are registered for
RegFrames ==
    << Frame(FlagsEmpty, RawBinary, 9, 0, <<33>>),
       Frame(FlagsEmpty, RawBinary, 7, 0, <<>>) >>

\* The on / on_any calls made so far
RegCalls ==
    Len(tables) - 1 + Cardinality({p \in Registrants : reg[p].pc \in {"lock", "write"}})

\* EasyClient::connect has returned: the router is empty and unlocked, the
\* reader actor is at its first read_frame on the stream on which the peer
\* will send peerFrames
InitRegistration ==
    /\ peerFrames = RegFrames
    /\ unsent = EncodeFrames(peerFrames)
    /\ buffer = <<>>
    /\ received = <<>>
    /\ fpc = "idle"
    /\ fret = NoResult
    /\ yielded = <<>>
    /\ callBuf0 = <<>>
    /\ callReads = 0
    /\ router = RouterNew
    /\ invocations = <<>>
    /\ nDispatched = 0
    /\ LockIdle
    /\ HeaderIdle /\ VarintIdle /\ FuzzIdle /\ WriterIdle /\ ClientIdle /\ ServerIdle

\* The steps of the callers of on / on_any
RegistrationSteps ==
    \/ /\ RegCalls < MaxRegs
       /\ \E p \in Registrants, ch \in RegChannels, cb \in Callbacks : on_call(p, ch, cb)
       /\ UNCHANGED <<codecVars, writerVars, framerVars, clientVars, serverVars>>
    \/ /\ RegCalls < MaxRegs
       /\ \E p \in Registrants, cb \in RegDefaultCallbacks : on_any_call(p, cb)
       /\ UNCHANGED <<codecVars, writerVars, framerVars, clientVars, serverVars>>
    \/ (\E p \in Registrants : reg_lock(p))
          /\ UNCHANGED <<codecVars, writerVars, framerVars, clientVars, serverVars>>
    \/ (\E p \in Registrants : reg_write(p))
          /\ UNCHANGED <<codecVars, writerVars, framerVars, clientVars, serverVars>>
    \/ (\E p \in Registrants : reg_return(p))
          /\ UNCHANGED <<codecVars, writerVars, framerVars, clientVars, serverVars>>

\* The steps of the reader actor, its dispatch under the router's mutex
LockedReaderSteps ==
    \/ read_frame_call /\ UNCHANGED <<codecVars, writerVars, readerVars, clientVars, serverVars, lockVars>>
    \/ read_frame_some /\ UNCHANGED <<codecVars, writerVars, readerVars, clientVars, serverVars, lockVars>>
    \/ read_frame_end /\ UNCHANGED <<codecVars, writerVars, readerVars, clientVars, serverVars, lockVars>>
    \/ read_frame_error /\ UNCHANGED <<codecVars, writerVars, readerVars, clientVars, serverVars, lockVars>>
    \/ reader_arm /\ UNCHANGED <<codecVars, writerVars, framerVars, clientVars, serverVars>>
    \/ reader_lock /\ UNCHANGED <<codecVars, writerVars, framerVars, clientVars, serverVars>>
    \/ reader_get /\ UNCHANGED <<codecVars, writerVars, framerVars, clientVars, serverVars>>
    \/ reader_default /\ UNCHANGED <<codecVars, writerVars, framerVars, clientVars, serverVars>>
    \/ reader_call /\ UNCHANGED <<codecVars, writerVars, clientVars, serverVars>>

NextRegistration ==
    \/ RegistrationSteps
    \/ LockedReaderSteps

SpecRegistration == InitRegistration /\ [][NextRegistration]_vars

\* The send calls made on the session
SessionSends == 2

\* The frames the peer sends on the session: of one kind
SessionFrameInputs == {Frame(FlagsEmpty, RawBinary, 7, 0, <<33>>)}

\* EasyClient::connect has returned: init_system has spawned the writer
\* actor, at its first rx.recv(), and the reader actor, at its first
\* read_frame on the stream on which the peer will send peerFrames
InitSession ==
    /\ queue = <<>>
    /\ rxClosed = FALSE
    /\ alive = {1}
    /\ sender = [p \in Producers |-> IF p = 1 THEN SenderIdle("None", FALSE)
                                     ELSE SenderAbsent]
    /\ nSends = 0
    /\ accepted = <<>>
    /\ nDequeued = 0
    /\ wpc = "recv"
    /\ wmsg = NoMessage
    /\ wire = <<>>
    /\ finishes = 0
    /\ peerFrames \in SeqsUpTo(SessionFrameInputs, MaxFrames)
    /\ unsent = EncodeFrames(peerFrames)
    /\ buffer = <<>>
    /\ received = <<>>
    /\ fpc = "idle"
    /\ fret = NoResult
    /\ yielded = <<>>
    /\ callBuf0 = <<>>
    /\ callReads = 0
    /\ router = RouterNew
    /\ invocations = <<>>
    /\ nDispatched = 0
    /\ HeaderIdle /\ VarintIdle /\ FuzzIdle /\ ClientIdle /\ ServerIdle /\ LockIdle

\* The steps of the reader actor
ReaderSteps ==
    \/ read_frame_call /\ UNCHANGED <<codecVars, writerVars, readerVars, clientVars, serverVars, lockVars>>
    \/ read_frame_some /\ UNCHANGED <<codecVars, writerVars, readerVars, clientVars, serverVars, lockVars>>
    \/ read_frame_end /\ UNCHANGED <<codecVars, writerVars, readerVars, clientVars, serverVars, lockVars>>
    \/ read_frame_error /\ UNCHANGED <<codecVars, writerVars, readerVars, clientVars, serverVars, lockVars>>
    \/ reader_dispatch /\ UNCHANGED <<codecVars, writerVars, clientVars, serverVars, lockVars>>

\* The two actors of init_system and the callers of send
NextSession ==
    \/ SendSteps(SessionSends, {U32Lit(7)}, {Ping})
    \/ WriterSteps
    \/ ReaderSteps

\* The reader actor can take a step: it is about to call read_frame or to
\* dispatch a frame, or stream.read can return (data, the end, an error)
reader_ready == fpc \in {"idle", "returned", "reading"}

\* A step of the reader actor, told by its position in read_frame and the
\* count of its reads
reader_turn ==
    /\ reader_ready
    /\ fpc' \in {"idle", "reading", "returned", "closed"}
    /\ callReads' \in {0, callReads, callReads + 1}
    /\ <<fpc, callReads>>' # <<fpc, callReads>>

\* The two actors are spawned tasks: the runtime polls each whenever it
\* can take a step
SpecSession ==
    /\ InitSession
    /\ [][NextSession]_vars
    /\ WF_<<wpc, nDequeued>>(writer_turn)
    /\ WF_<<fpc, callReads>>(reader_turn)

\* A frame of a peer whose channel ids are 64 bits wide: RawBinary, no
\* flags, stream 0
WideFrame(channel, payload) == [channel |-> channel, payload |-> payload]

\* A QUIC varint as such a peer writes it
WireVarint(v) ==
    Bind(encode_varint(v, Zeros(8)), LAMBDA r : SubSeq(r.buf, 1, r.res.val))

\* The bytes of such a frame: first byte, channel id, stream id, length,
\* payload
WideEncode(f) ==
    <<0>> \o WireVarint(f.channel) \o WireVarint(U64Zero)
          \o WireVarint(U64Lit(Len(f.payload))) \o f.payload

RECURSIVE WideEncodeFrames(_)
WideEncodeFrames(fs) ==
    IF fs = <<>> THEN <<>> ELSE WideEncode(Head(fs)) \o WideEncodeFrames(Tail(fs))

\* The channel ids on the wire: 2^32 + 7, 2^62 - 2^32 + 7 and 2^32 + 300
WideChannels ==
    { <<0, 0, 0, 1, 0, 0, 0, 7>>, <<63, 255, 255, 255, 0, 0, 0, 7>>,
      <<0, 0, 0, 1, 0, 0, 1, 44>> }
WideFrameInputs == {WideFrame(c, <<33>>) : c \in WideChannels}

\* EasyClient::connect has returned: the router is empty, the reader actor
\* is at its first read_frame on the stream on which such a peer will send
\* peerFrames
InitWide ==
    /\ peerFrames \in SeqsUpTo(WideFrameInputs, MaxFrames)
    /\ unsent = WideEncodeFrames(peerFrames)
    /\ buffer = <<>>
    /\ received = <<>>
    /\ fpc = "idle"
    /\ fret = NoResult
    /\ yielded = <<>>
    /\ callBuf0 = <<>>
    /\ callReads = 0
    /\ router = RouterNew
    /\ invocations = <<>>
    /\ nDispatched = 0
    /\ HeaderIdle /\ VarintIdle /\ FuzzIdle /\ WriterIdle /\ ClientIdle /\ ServerIdle /\ LockIdle

SpecWide == InitWide /\ [][NextReader]_vars

\* The headers header.encode(&mut head_buf) is called on with a head_buf
\* of 32 bytes: those writer_loop builds, for a channel id and a data
\* length of any width, and their like with a stream id of the greatest
\* width
HeadInputs ==
    {FrameHeader(FlagsEmpty, RawBinary, c, s, l) :
        c \in ChannelInputs, s \in {U64Lit(SessionStreamIndex), U64Max},
        l \in LengthInputs \cup {U64Max}}

\* The channels of the send calls: the least and the greatest u32
HeadChannels == {U32Lit(0), <<255, 255, 255, 255>>}

\* init_system has spawned the writer actor, and a header is about to be
\* encoded into a head_buf
InitWriterHead ==
    /\ hdrIn \in HeadInputs
    /\ encBuf = Zeros(HeadBufLen)
    /\ encRes = NoResult
    /\ decRes = NoResult
    /\ queue = <<>>
    /\ rxClosed = FALSE
    /\ alive = {1}
    /\ sender = [p \in Producers |-> IF p = 1 THEN SenderIdle("None", FALSE)
                                     ELSE SenderAbsent]
    /\ nSends = 0
    /\ accepted = <<>>
    /\ nDequeued = 0
    /\ wpc = "recv"
    /\ wmsg = NoMessage
    /\ wire = <<>>
    /\ finishes = 0
    /\ VarintIdle /\ FuzzIdle /\ FramerIdle /\ ReaderIdle /\ ClientIdle /\ ServerIdle /\ LockIdle

NextWriterHead ==
    \/ HeaderEncode /\ UNCHANGED <<varintVars, fuzzVars, framerVars, writerVars, readerVars, clientVars, serverVars, lockVars>>
    \/ SendSteps(SessionSends, HeadChannels, {<<112, 105>>})
    \/ WriterSteps

SpecWriterHead == InitWriterHead /\ [][NextWriterHead]_vars
-----------------------------------------------------------------------------
(* Codec claims. *)

\* The number of significant bits of a byte and of a big-endian tuple.
RECURSIVE ByteBits(_)
ByteBits(b) == IF b = 0 THEN 0 ELSE 1 + ByteBits(b \div 2)

BitLen(v) ==
    IF \A i \in 1..Len(v) : v[i] = 0 THEN 0
    ELSE LET i == CHOOSE k \in 1..Len(v) :
                      v[k] # 0 /\ \A j \in 1..(k - 1) : v[j] = 0
         IN  8 * (Len(v) - i) + ByteBits(v[i])

\* v < 2^62
FitsVarint(v) == BitLen(v) <= 62

\* The smallest of 1, 2, 4, 8 bytes whose 6, 14, 30, 62 value bits hold v.
MinimalWidth(v) ==
    CHOOSE w \in {1, 2, 4, 8} :
        /\ BitLen(v) <= 8 * w - 2
        /\ \A u \in {1, 2, 4, 8} : BitLen(v) <= 8 * u - 2 => w <= u

\* The bytes a header of these fields needs.
HeaderLen(h) ==
    1 + MinimalWidth(U32AsU64(h.channel_id)) + MinimalWidth(h.stream_id)
      + MinimalWidth(h.length)

HeaderFits(h) == FitsVarint(h.stream_id) /\ FitsVarint(h.length)

\* C1: for every header whose stream_id and length are below 2^62 and every
\* buffer large enough, encode succeeds, and decode of the bytes it wrote
\* returns the same header, field by field, and as consumed length the
\* number of bytes encode reported.
C1_HeaderRoundTrip ==
    HeaderFits(hdrIn) =>
        /\ (encRes.tag # "NotYet" /\ Len(encBuf) >= HeaderLen(hdrIn)) => IsOk(encRes)
        /\ decRes.tag # "NotYet" =>
              /\ IsOk(decRes)
              /\ decRes.val.header.flags = hdrIn.flags
              /\ decRes.val.header.frame_type = hdrIn.frame_type
              /\ decRes.val.header.channel_id = hdrIn.channel_id
              /\ decRes.val.header.stream_id = hdrIn.stream_id
              /\ decRes.val.header.length = hdrIn.length
              /\ decRes.val.len = encRes.val

\* A header of type Unknown with both flags, a 32-bit channel id and the
\* largest stream id and length has been encoded (25 bytes) and decoded.
C1_Witness ==
    /\ IsOk(decRes)
    /\ hdrIn.frame_type = Unknown
    /\ hdrIn.flags = BitOr(CONTROL, PRIORITY)
    /\ hdrIn.channel_id = <<255, 255, 255, 255>>
    /\ hdrIn.stream_id = VarintMax
    /\ hdrIn.length = VarintMax
    /\ encRes.val = 25

\* C2: for every v below 2^62, encode_varint writes the minimal width w of
\* v (boundaries 63, 16383, 1073741823) whenever the buffer holds w bytes,
\* and decode_varint of those bytes returns (v, w).
C2_VarintRoundTrip ==
    FitsVarint(vIn) =>
        /\ (vEnc.tag # "NotYet" /\ Len(vBuf) >= MinimalWidth(vIn)) =>
              IsOk(vEnc) /\ vEnc.val = MinimalWidth(vIn)
        /\ vDec.tag # "NotYet" =>
              /\ IsOk(vDec)
              /\ vDec.val.value = vIn
              /\ vDec.val.len = vEnc.val
              /\ vDec.val.len = MinimalWidth(vIn)

\* The value 64, the first that needs two bytes, has made the round trip.
C2_Witness ==
    /\ vIn = U64Lit(64)
    /\ IsOk(vDec)
    /\ vDec.val.len = 2

\* C3: on every input, FrameHeader::decode returns an error value or a
\* header with a consumed length n, 1 <= n <= len(b); it never panics on an
\* index or a slice out of range.
C3_DecodeTotal ==
    fuzzDec.tag # "NotYet" =>
        \/ /\ IsErr(fuzzDec)
           /\ fuzzDec.err.kind \in {"IncompleteInput", "InvalidVarInt"}
        \/ /\ IsOk(fuzzDec)
           /\ 1 <= fuzzDec.val.len
           /\ fuzzDec.val.len <= Len(fuzzIn)

\* A header cut one byte short of its last, 8-byte varint has been decoded:
\* the error names the 8 bytes needed and the 7 there.
C3_Witness ==
    /\ Len(fuzzIn) = 24
    /\ IsErr(fuzzDec)
    /\ fuzzDec.err = IncompleteInput(8, 7)

\* C18: FrameHeader::encode of a header whose stream_id or length is 2^62
\* or more returns an error, and whenever encode succeeds, decode of the
\* bytes it wrote returns the stream_id and the length that were given.
C18_OutOfRangeRejected ==
    /\ (encRes.tag # "NotYet" /\ ~HeaderFits(hdrIn)) => IsErr(encRes)
    /\ (IsOk(encRes) /\ IsOk(decRes)) =>
          /\ decRes.val.header.stream_id = hdrIn.stream_id
          /\ decRes.val.header.length = hdrIn.length

\* A header of length 2^62 has been encoded with success, as 0xC0 and
\* seven zero bytes, and the bytes decode to a header of length 0.
C18_Witness ==
    /\ hdrIn.length = IncAt(VarintMax, 8)
    /\ FitsVarint(hdrIn.stream_id)
    /\ IsOk(encRes)
    /\ SubSeq(encBuf, encRes.val - 7, encRes.val) = <<192, 0, 0, 0, 0, 0, 0, 0>>
    /\ IsOk(decRes)
    /\ decRes.val.header.length = U64Lit(0)

\* C19: FrameHeader::decode of the empty buffer fails with
\* IncompleteInput{needed_min: 1, available: 0}, and of every proper
\* prefix of an encoded header it fails with IncompleteInput, never with
\* another error, a panic or a header; parse_frame then returns Ok(None)
\* and leaves the buffer as it is.
C19_IncompletePrefix ==
    fuzzDec.tag # "NotYet" =>
        /\ IsErr(fuzzDec)
        /\ fuzzDec.err.kind = "IncompleteInput"
        /\ fuzzDec.err.available < fuzzDec.err.needed_min
        /\ fuzzIn = <<>> => fuzzDec = Err(IncompleteInput(1, 0))
        /\ parse_frame(fuzzIn) = [res |-> NoFrame, buf |-> fuzzIn]

\* A header of 25 bytes cut one byte short has been decoded: the error
\* names the 8 bytes the last varint needs and the 7 there.
C19_Witness ==
    /\ encRes = Ok(25)
    /\ fuzzIn = SubSeq(encBuf, 1, 24)
    /\ fuzzDec = Err(IncompleteInput(8, 7))

\* Bit k (0 the lowest) of the byte b
BitOf(b, k) == (b \div (2 ^ k)) % 2

\* The byte b with its bit 5 (0x20) inverted
FlipBit5(b) == IF BitOf(b, 5) = 1 THEN b - 32 ELSE b + 32

\* C20: for every first byte 0..255 followed by three complete varints,
\* FrameHeader::decode succeeds and consumes the whole input; the type
\* is that of the low 5 bits, Unknown when they are not 0, 1 or 2; the
\* flags are those of bits 7 and 6; and the same input with bit 5
\* inverted decodes to the same header.
C20_FirstByteCompatible ==
    fuzzDec.tag # "NotYet" =>
        LET b == fuzzIn[1]
            ty == b % 32
        IN  /\ IsOk(fuzzDec)
            /\ fuzzDec.val.len = Len(fuzzIn)
            /\ ty = 0 => fuzzDec.val.header.frame_type = RawBinary
            /\ ty = 1 => fuzzDec.val.header.frame_type = RkyvAligned
            /\ ty = 2 => fuzzDec.val.header.frame_type = Utf8Text
            /\ ty \notin {0, 1, 2} => fuzzDec.val.header.frame_type = Unknown
            /\ fuzzDec.val.header.flags = 128 * BitOf(b, 7) + 64 * BitOf(b, 6)
            /\ FrameHeader_decode(<<FlipBit5(b)>> \o Tail(fuzzIn)) = fuzzDec

\* The first byte 0xE2 (both flags, bit 5, type 2) before three 8-byte
\* varints has been decoded: Utf8Text with both flags.
C20_Witness ==
    /\ Len(fuzzIn) = 25
    /\ fuzzIn[1] = 226
    /\ IsOk(fuzzDec)
    /\ fuzzDec.val.header.frame_type = Utf8Text
    /\ fuzzDec.val.header.flags = BitOr(CONTROL, PRIORITY)


C29_NonCanonicalNormalised ==
    /\ IsErr(fuzzDec) => fuzzDec.err.kind = "IncompleteInput"
    /\ fuzzEnc.tag = "Done" =>
          /\ IsOk(fuzzDec)
          /\ IsOk(fuzzEnc.res)
          /\ fuzzEnc.res.val <= fuzzDec.val.len
          /\ Bind(FrameHeader_decode(SubSeq(fuzzEnc.buf, 1, fuzzEnc.res.val)),
                  LAMBDA d : /\ IsOk(d)
                             /\ d.val.header = fuzzDec.val.header
                             /\ d.val.len = fuzzEnc.res.val)

\* The input is a first byte, the channel id 9 written on eight bytes, the
\* stream id 1 written on two and the length 0: decode consumed twelve
\* bytes, encode wrote four.
C29_Witness ==
    /\ fuzzIn = <<0, 192, 0, 0, 0, 0, 0, 0, 9, 64, 1, 0>>
    /\ IsOk(fuzzDec)
    /\ fuzzDec.val.len = 12
    /\ fuzzDec.val.header.channel_id = U32Lit(9)
    /\ fuzzDec.val.header.stream_id = U64Lit(1)
    /\ fuzzEnc.tag = "Done"
    /\ IsOk(fuzzEnc.res)
    /\ SubSeq(fuzzEnc.buf, 1, fuzzEnc.res.val) = <<0, 9, 1, 0>>
-----------------------------------------------------------------------------
(* Framer claims. *)

IsPrefix(p, q) == Len(p) <= Len(q) /\ SubSeq(q, 1, Len(p)) = p

\* The header bytes of a frame as its sender writes them.
HeaderBytes(f) == EncodeFrame([f EXCEPT !.payload = <<>>])

\* What read_frame returns for the frame f.
Yield(f) == SomeFrame(f.header, f.payload)

\* The stream ended cleanly (stream.read gave None), not by a read error.
CleanEnd == fpc = "closed" /\ fret # Failed("read error")

\* C4: however the bytes of the k frames are split into reads, the calls
\* yield those frames in order (never another frame, never one out of
\* turn), and once all bytes are delivered and the stream has ended
\* cleanly the calls have yielded exactly the k frames and then None.
C4_FragmentationIndependence ==
    /\ \A i \in 1..Len(yielded) :
          yielded[i].tag = "Some" =>
              i <= Len(peerFrames) /\ yielded[i] = Yield(peerFrames[i])
    /\ (CleanEnd /\ unsent = <<>>) =>
          yielded = [i \in 1..Len(peerFrames) |-> Yield(peerFrames[i])] \o <<NoFrame>>

\* The second of two frames, one with a payload, has been returned by a
\* call that needed three reads or more.
C4_Witness ==
    /\ Len(peerFrames) = 2
    /\ Len(yielded) = 2
    /\ fret = Yield(peerFrames[2])
    /\ Len(fret.payload) > 0
    /\ callReads >= 3

\* The number of the current call, or of the last one when none is running.
CallNo == IF fpc = "reading" THEN Len(yielded) + 1 ELSE Len(yielded)

\* C5: a call that starts with a complete frame in the buffer (the frame
\* next in order, left there by a read that delivered several) returns
\* that frame without reading the stream.
C5_Coalescing ==
    (/\ CallNo >= 1
     /\ CallNo <= Len(peerFrames)
     /\ IsPrefix(EncodeFrame(peerFrames[CallNo]), callBuf0))
        => /\ fpc # "reading"
           /\ callReads = 0
           /\ yielded[CallNo] = Yield(peerFrames[CallNo])

\* Two frames came in one read: the second call started with the second
\* frame as its whole buffer and returned it without a read.
C5_Witness ==
    /\ Len(peerFrames) = 2
    /\ Len(yielded) = 2
    /\ callBuf0 = EncodeFrame(peerFrames[2])
    /\ fret = Yield(peerFrames[2])
    /\ callReads = 0
    /\ buffer = <<>>

\* The stream delivered whole frames and then one complete header, with
\* none of its payload bytes: frame j + 1 is the one of that header.
HeaderOnlyAt(j) ==
    /\ j < Len(peerFrames)
    /\ received = EncodeFrames(SubSeq(peerFrames, 1, j)) \o HeaderBytes(peerFrames[j + 1])

\* C6 as stated: at a clean end of stream read_frame returns None exactly
\* when the buffer is empty and an error when it holds bytes; a stream that
\* delivered nothing yields None; a stream that closes after a complete
\* header and no payload bytes yields an error.
C6_AsStated ==
    CleanEnd =>
        /\ (fret = NoFrame) <=> (buffer = <<>>)
        /\ buffer # <<>> => fret = Failed("Stream closed with partial frame data")
        /\ received = <<>> => yielded = <<NoFrame>>
        /\ \A j \in 0..Len(peerFrames) : HeaderOnlyAt(j) => fret.tag = "Err"

\* C6, amended: as stated, but a complete header and no payload bytes
\* yields an error only when the header declares a payload (length > 0); a
\* header of length 0 is a whole frame, which is yielded, and then None.
C6_EndOfStream ==
    CleanEnd =>
        /\ (fret = NoFrame) <=> (buffer = <<>>)
        /\ buffer # <<>> => fret = Failed("Stream closed with partial frame data")
        /\ received = <<>> => yielded = <<NoFrame>>
        /\ \A j \in 0..Len(peerFrames) :
              HeaderOnlyAt(j) =>
                  IF peerFrames[j + 1].header.length # U64Zero
                  THEN /\ fret = Failed("Stream closed with partial frame data")
                       /\ Len(yielded) = j + 1
                  ELSE /\ fret = NoFrame
                       /\ Len(yielded) = j + 2
                       /\ yielded[j + 1] = Yield(peerFrames[j + 1])

\* The stream closed after the complete header of a frame with a payload
\* and none of the payload: the call returned the error.
C6_Witness ==
    /\ CleanEnd
    /\ HeaderOnlyAt(0)
    /\ peerFrames[1].header.length # U64Zero
    /\ fret.tag = "Err"
    /\ yielded = <<fret>>


\* The frames yielded so far, in order, each as the bytes of its header
\* followed by its payload
RECURSIVE YieldedBytes(_)
YieldedBytes(n) ==
    IF n = 0 THEN <<>>
    ELSE IF yielded[n].tag = "Some"
    THEN YieldedBytes(n - 1)
            \o EncodeFrame([header |-> yielded[n].header, payload |-> yielded[n].payload])
    ELSE YieldedBytes(n - 1)

\* The buffer a step of read_frame parses: the buffer, extended by the
\* bytes the step has read from the stream
ParsedBuffer == buffer \o SubSeq(received', Len(received) + 1, Len(received'))

\* The step makes read_frame return a frame
YieldsFrame == Len(yielded') = Len(yielded) + 1 /\ yielded'[Len(yielded')].tag = "Some"

\* C28: the Framer neither loses nor invents bytes.  The bytes read from
\* the stream so far are the header and payload bytes of the frames
\* yielded, in order, followed by the buffer.  A step that yields no
\* frame leaves in the buffer all it held and all that was read; a step
\* that yields a frame takes from the front of the buffer exactly the
\* bytes of the header, as many as its decoding consumed, and the
\* header.length bytes after them, which are the payload, and leaves the
\* rest.
C28_ByteConservation ==
    /\ [](received = YieldedBytes(Len(yielded)) \o buffer)
    /\ [][IF YieldsFrame
          THEN LET f == yielded'[Len(yielded')]
                   d == FrameHeader_decode(ParsedBuffer)
               IN  /\ IsOk(d)
                   /\ f.header = d.val.header
                   /\ U64Small(f.header.length)
                   /\ Len(f.payload) = U64ToNat(f.header.length)
                   /\ ParsedBuffer = SubSeq(ParsedBuffer, 1, d.val.len) \o f.payload \o buffer'
          ELSE buffer' = ParsedBuffer]_vars

\* The first frame, with a payload of two bytes, was returned by a call
\* whose first reads gave no whole frame, and the read that completed it
\* brought bytes of the next frame, which are left in the buffer.
C28_Witness ==
    /\ Len(yielded) = 1
    /\ fret.tag = "Some"
    /\ Len(fret.payload) = 2
    /\ callReads >= 2
    /\ buffer # <<>>
    /\ unsent # <<>>
-----------------------------------------------------------------------------
(* Governor claims. *)

RECURSIVE Flatten(_)
Flatten(ss) == IF ss = <<>> THEN <<>> ELSE Head(ss) \o Flatten(Tail(ss))

\* The bytes written to the send half, in order.
WireBytes == Flatten([i \in 1..Len(wire) |-> wire[i].bytes])

\* The frame of an accepted message as it must appear on the stream.
MessageFrame(msg) ==
    EncodeFrame([header |-> FrameHeader(FlagsEmpty, RawBinary, msg.channel_id,
                                        U64Lit(SessionStreamIndex),
                                        U64Lit(Len(msg.data))),
                 payload |-> msg.data])

\* The indices of the write_all calls of the given part, in order.
RECURSIVE WritesOf(_, _)
WritesOf(part, n) ==
    IF n = 0 THEN <<>>
    ELSE IF wire[n].part = part THEN Append(WritesOf(part, n - 1), wire[n].id)
    ELSE WritesOf(part, n - 1)

\* The messages whose frame has been written whole, and those whose
\* header has, in the order of the writes.
FramesWritten == WritesOf("payload", Len(wire))
HeadersWritten == WritesOf("header", Len(wire))

AcceptedIds == [i \in 1..Len(accepted) |-> accepted[i].id]

\* C7: in every reachable state the frames written to the send half are
\* those of a prefix of the accepted messages, in the order of their
\* acceptance: message by message (so none twice, none before an
\* earlier one) and byte by byte (a write that failed half way included).
C7_OutboundFifo ==
    /\ IsPrefix(FramesWritten, AcceptedIds)
    /\ IsPrefix(HeadersWritten, AcceptedIds)
    /\ Len(HeadersWritten) <= Len(FramesWritten) + 1
    /\ IsPrefix(WireBytes,
                Flatten([i \in 1..Len(accepted) |-> MessageFrame(accepted[i])]))

\* Three different messages were accepted from two clones while the
\* writer was busy, and the frames of the first two have been written.
C7_Witness ==
    /\ Len(accepted) = MaxSends
    /\ accepted[1].channel_id # accepted[2].channel_id
    /\ accepted[2].data # accepted[3].data
    /\ \A p \in Producers : sender[p].res = "Ok"
    /\ FramesWritten = <<accepted[1].id, accepted[2].id>>
    /\ Len(queue) = 1

Suspended(p) == sender[p].pc = "suspended"

\* The send call of clone p returns in this step.
Returns(p) ==
    /\ sender[p].pc \in {"idle", "suspended"}
    /\ sender'[p].pc = "idle"
    /\ \/ sender'[p] # sender[p]
       \/ nSends' # nSends /\ \A q \in Producers \ {p} : sender'[q] = sender[q]

\* C8: the queue never holds more than 64 messages; a send call made on a
\* full queue does not return Ok at once, and when it later returns Ok
\* the writer has dequeued a message since the call; and the messages
\* taken from the callers and not yet written are those in the queue,
\* the one the writer is writing and one per suspended send call.
C8_Backpressure ==
    /\ [](Len(queue) <= GovernorCapacity)
    /\ [][\A p \in Producers :
             /\ (Len(queue) = GovernorCapacity /\ ~Suspended(p) /\ Returns(p))
                   => sender'[p].res # "Ok"
             /\ (Suspended(p) /\ Returns(p) /\ sender'[p].res = "Ok")
                   => nDequeued > sender[p].deq0]_vars
    /\ [](~rxClosed =>
             /\ Len(accepted) = nDequeued + Len(queue)
             /\ nSends = Len(accepted) + Cardinality({p \in Producers : Suspended(p)})
             /\ wpc = "recv" => Len(FramesWritten) = nDequeued
             /\ wpc \in {"write_header", "write_payload"} =>
                   Len(FramesWritten) = nDequeued - 1 /\ wmsg = accepted[nDequeued])

\* The queue is full again after a send call that had been suspended on
\* the full queue returned Ok.
C8_Witness ==
    /\ \E p \in Producers :
          sender[p].pc = "idle" /\ sender[p].res = "Ok" /\ sender[p].waited
    /\ Len(accepted) > GovernorCapacity
    /\ Len(queue) = GovernorCapacity

\* C9: once the writer actor has ended and dropped rx, the channel stays
\* closed, every send call that returns returns the error "connection
\* closed" and nothing is enqueued; and no send call stays suspended for
\* ever on the closed channel (so one suspended on the full queue when
\* the writer ended returns, and by the above returns that error).
C9_SendAfterClose ==
    /\ [][rxClosed =>
             /\ rxClosed' /\ wpc' = "done"
             /\ queue' = queue /\ accepted' = accepted
             /\ \A p \in Producers : Returns(p) => sender'[p].res = "Closed"]_vars
    /\ \A p \in Producers : <>[]~(rxClosed /\ Suspended(p))

\* The writer ended on a write error while one clone was suspended on the
\* full queue: that send call has returned the error, and so has a send
\* call the other clone made afterwards.
C9_Witness ==
    /\ rxClosed
    /\ wpc = "done"
    /\ \E p, q \in Producers :
          /\ sender[p].res = "Closed" /\ sender[p].waited
          /\ sender[q].res = "Closed" /\ ~sender[q].waited
    /\ Len(accepted) = GovernorCapacity

\* A write_all on the send half has returned an error
WriteFailed == \E i \in 1..Len(wire) : wire[i].part = "cut"

\* C15: after the first failed write, of a header or of a payload, the
\* writer actor writes nothing more, dequeues no further message, and
\* finalizes the send half exactly once: the failed write stays the last
\* and only one, the loop has been left, finish is never called twice,
\* and it is eventually called.
C15_WriterFailureFatal ==
    /\ [](WriteFailed =>
            /\ wire[Len(wire)].part = "cut"
            /\ Cardinality({i \in 1..Len(wire) : wire[i].part = "cut"}) = 1
            /\ wpc \in {"finish", "done"}
            /\ wmsg = NoMessage)
    /\ [][WriteFailed => wire' = wire /\ nDequeued' = nDequeued]_vars
    /\ [](finishes <= 1 /\ (wpc = "done" <=> finishes = 1))
    /\ <>[](WriteFailed => finishes = 1 /\ wpc = "done")

\* A torn write: the header of a message was written, its payload write
\* failed, the send half was finalized, and a message accepted by the
\* queue was never dequeued.
C15_Witness ==
    /\ WriteFailed
    /\ Len(wire) >= 2
    /\ wire[Len(wire) - 1].part = "header"
    /\ wire[Len(wire) - 1].id = wire[Len(wire)].id
    /\ finishes = 1
    /\ nDequeued < Len(accepted)

\* The writer actor has left its loop
WriterLeftLoop == wpc \in {"finish", "done"}

\* The write_all calls that write the accepted messages whole: for each
\* in turn its header, then its payload
RECURSIVE WritesOfMessages(_)
WritesOfMessages(msgs) ==
    IF msgs = <<>> THEN <<>>
    ELSE <<write_all_ok(Head(msgs).id, "header", writer_head(Head(msgs))),
           write_all_ok(Head(msgs).id, "payload", Head(msgs).data)>>
         \o WritesOfMessages(Tail(msgs))

\* C16: the writer actor leaves its loop only after a write error or
\* after every clone of the client has been dropped; when it leaves it
\* with no write having failed, every message the queue accepted has been
\* written, header then payload, in order, before the send half is
\* finalized; and once every clone is dropped the send half is
\* eventually finalized.
C16_WriterDrain ==
    /\ [](WriterLeftLoop => WriteFailed \/ alive = {})
    /\ [](WriterLeftLoop /\ ~WriteFailed =>
            /\ queue = <<>>
            /\ nDequeued = Len(accepted)
            /\ wire = WritesOfMessages(accepted)
            /\ WireBytes = Flatten([i \in 1..Len(accepted) |-> MessageFrame(accepted[i])]))
    /\ [][finishes' # finishes => WriterLeftLoop /\ wire' = wire]_vars
    /\ <>[](alive = {} => finishes = 1)

\* Every clone was dropped with the three accepted messages not all
\* written yet; none of the writes failed, all three frames are on the
\* stream and the send half is finalized.
C16_Witness ==
    /\ alive = {}
    /\ ~WriteFailed
    /\ Len(accepted) = MaxSends
    /\ wire = WritesOfMessages(accepted)
    /\ finishes = 1


\* A send call returns Ok in this step: a clone that was idle has made a
\* call and is idle again with Ok, or a suspended one is idle with Ok
SendReturnsOk ==
    \E p \in Producers :
       /\ sender'[p].pc = "idle"
       /\ sender'[p].res = "Ok"
       /\ \/ sender[p].pc = "idle" /\ nSends' = nSends + 1
          \/ sender[p].pc = "suspended"
       /\ \A q \in Producers \ {p} : sender'[q] = sender[q]

\* A message is accepted into the queue in this step
Accepts ==
    /\ Len(accepted') = Len(accepted) + 1
    /\ SubSeq(accepted', 1, Len(accepted)) = accepted
    /\ queue' = Append(queue, accepted'[Len(accepted')])

\* The messages the writer actor has made a write for
WrittenIds == {wire[i].id : i \in 1..Len(wire)}

\* C24: a send call returns Ok in exactly the steps in which its message
\* is accepted into the queue, and the queue changes the accepted
\* messages in no other way; a write that fails and the end of the writer
\* actor change the result of no send call; and of the accepted messages
\* only those dequeued were ever written: those still queued when the
\* writer actor ended are discarded, their send calls having returned Ok.
C24_FireAndForget ==
    /\ [][/\ SendReturnsOk <=> Accepts
          /\ accepted' # accepted => Accepts]_vars
    /\ [][((WriteFailed' /\ ~WriteFailed) \/ finishes' # finishes \/ wire' # wire)
             => sender' = sender]_vars
    /\ [](/\ WrittenIds \subseteq {accepted[i].id : i \in 1..nDequeued}
          /\ nDequeued <= Len(accepted)
          /\ wpc = "done" => queue = <<>> /\ rxClosed)

\* The header write of the first message failed with the queue full and
\* the writer actor ended: the 64 messages behind it were discarded, and
\* the last send call of each clone had returned Ok, one of them after
\* waiting for room.
C24_Witness ==
    /\ wpc = "done"
    /\ WriteFailed
    /\ WrittenIds = {accepted[1].id}
    /\ Len(accepted) = GovernorCapacity + 1
    /\ alive = Producers
    /\ \A p \in Producers : sender[p].pc = "idle" /\ sender[p].res = "Ok"
    /\ \E p \in Producers : sender[p].waited

\* The frames of the first n accepted messages, one after the other
FramesOfAccepted(n) == Flatten([i \in 1..n |-> MessageFrame(accepted[i])])

\* C26: as long as no write has failed, whatever the clones do meanwhile,
\* the writes on the send half go frame by frame: the header of a message,
\* then its payload, then the header of the next accepted message; each
\* header written decodes, whole, to a length that is exactly the number
\* of payload bytes written after it; and between two frames the bytes
\* written are the concatenation of the whole frames of the messages
\* dequeued so far.
C26_NoInterleaving ==
    ~WriteFailed =>
       /\ \A i \in 1..Len(wire) :
             /\ wire[i].part = (IF i % 2 = 1 THEN "header" ELSE "payload")
             /\ wire[i].id = accepted[(i + 1) \div 2].id
             /\ i % 2 = 0 =>
                   Bind(FrameHeader_decode(wire[i - 1].bytes),
                        LAMBDA d : /\ IsOk(d)
                                   /\ d.val.len = Len(wire[i - 1].bytes)
                                   /\ d.val.header.length = U64Lit(Len(wire[i].bytes))
                                   /\ wire[i].bytes = accepted[i \div 2].data)
       /\ wpc \in {"recv", "finish", "done"} =>
             /\ Len(wire) = 2 * nDequeued
             /\ WireBytes = FramesOfAccepted(nDequeued)
       /\ wpc = "write_header" => Len(wire) = 2 * nDequeued - 2
       /\ wpc = "write_payload" => Len(wire) = 2 * nDequeued - 1

\* Two clones have both had sends accepted; one frame is on the stream
\* whole, the header of the second message is written and its payload,
\* which is not empty, is not yet, while a third message waits in the
\* queue.
C26_Witness ==
    /\ ~WriteFailed
    /\ \A p \in Producers : sender[p].pc = "idle" /\ sender[p].res = "Ok"
    /\ Len(accepted) = 3
    /\ Len(wire) = 3
    /\ wpc = "write_payload"
    /\ wmsg.data # <<>>
    /\ Len(queue) = 1
    /\ queue[1].channel_id # wmsg.channel_id

\* The messages the writer actor has dequeued
DequeuedIds == {accepted[i].id : i \in 1..nDequeued}

\* C27: header.encode on the 32-byte head_buf never fails, whatever the
\* widths of the three varints, and writes at most 25 bytes; so the writer
\* actor never takes the branch that skips a message: each message it
\* dequeues is the one it goes on to write, the header it writes is the
\* encoded one, and every dequeued message has had its write attempted
\* or is the one about to be written.
C27_NoSilentSkip ==
    /\ [](encRes.tag # "NotYet" => IsOk(encRes) /\ encRes.val <= 25)
    /\ [](wpc = "write_header" =>
             Bind(writer_encode(wmsg),
                  LAMBDA e : IsOk(e.res) /\ e.res.val <= 25 /\ e.res.val <= HeadBufLen))
    /\ [][nDequeued' # nDequeued =>
             /\ queue # <<>>
             /\ wmsg' = Head(queue)
             /\ wpc' = "write_header"]_vars
    /\ [][(wpc = "write_header" /\ wpc' # wpc) =>
             /\ Len(wire') = Len(wire) + 1
             /\ wire'[Len(wire')].id = wmsg.id]_vars
    /\ [](DequeuedIds \subseteq
             WrittenIds \cup (IF wpc = "write_header" THEN {wmsg.id} ELSE {}))

\* A header of the greatest width, 25 bytes, has been encoded, and the
\* writer actor has dequeued two messages, the second on the channel
\* 2^32 - 1, whose header of 11 bytes it is about to write.
C27_Witness ==
    /\ IsOk(encRes) /\ encRes.val = 25
    /\ nDequeued = 2
    /\ wpc = "write_header"
    /\ wmsg.channel_id = <<255, 255, 255, 255>>
    /\ Len(writer_head(wmsg)) = 11
    /\ Len(wire) = 2
-----------------------------------------------------------------------------
(* Reader claims. *)

\* The frames read_frame has returned, and of them those still to be
\* dispatched (the one just returned).
FramesReturned == Cardinality({i \in 1..Len(yielded) : yielded[i].tag = "Some"})
FramesPending == IF fpc = "returned" THEN 1 ELSE 0

Invocation(callback, payload) == [handler |-> callback, payload |-> payload]

\* C10: every frame read_frame returns is dispatched, once and before
\* the next is read; its dispatch invokes the handler registered for its
\* channel_id at that time, once and with its payload, or else the
\* default handler if there is one, once, or else nothing; and no other
\* step invokes a handler, so a frame not delivered at its dispatch is
\* never delivered, and the default handler never gets a frame of a
\* channel that has its own.
C10_DispatchRule ==
    /\ [](nDispatched = FramesReturned - FramesPending)
    /\ [][IF nDispatched' # nDispatched
          THEN LET ch == fret.header.channel_id
                   p == fret.payload
               IN  /\ nDispatched' = nDispatched + 1
                   /\ fret = yielded[Len(yielded)]
                   /\ fret.tag = "Some"
                   /\ \/ /\ ch \in DOMAIN router.handlers
                         /\ invocations' =
                               Append(invocations, Invocation(router.handlers[ch], p))
                      \/ /\ ch \notin DOMAIN router.handlers
                         /\ router.default_handler # NoHandler
                         /\ invocations' =
                               Append(invocations, Invocation(router.default_handler, p))
                      \/ /\ ch \notin DOMAIN router.handlers
                         /\ router.default_handler = NoHandler
                         /\ invocations' = invocations
          ELSE invocations' = invocations]_vars

\* Two frames with different payloads were dispatched: the first, on a
\* channel then without handler and with no default handler, was
\* discarded; the second went to the handler of its channel only,
\* though a default handler is registered too.
C10_Witness ==
    /\ nDispatched = 2
    /\ peerFrames[1].payload # peerFrames[2].payload
    /\ router.default_handler # NoHandler
    /\ peerFrames[2].header.channel_id \in DOMAIN router.handlers
    /\ peerFrames[1].header.channel_id \notin DOMAIN router.handlers
    /\ invocations =
          <<Invocation(router.handlers[peerFrames[2].header.channel_id],
                       peerFrames[2].payload)>>

RECURSIVE IsSubseq(_, _)
IsSubseq(s, t) ==
    IF s = <<>> THEN TRUE
    ELSE IF t = <<>> THEN FALSE
    ELSE IF Head(s) = Head(t) THEN IsSubseq(Tail(s), Tail(t))
    ELSE IsSubseq(s, Tail(t))

\* The payloads the handlers were invoked with, and the payloads of the
\* frames dispatched so far as they lie on the stream.
InvokedPayloads == [i \in 1..Len(invocations) |-> invocations[i].payload]
WirePayloads == [i \in 1..nDispatched |-> peerFrames[i].payload]

\* C11: the frames are dispatched in the order in which the peer wrote
\* them, whatever their channels: the k-th dispatch is of the k-th frame
\* of the stream, an invocation it makes comes after all earlier ones and
\* carries that frame's payload, so the payloads the handlers have seen
\* are, in order, payloads of the frames on the wire.
C11_DispatchOrder ==
    /\ [](IsSubseq(InvokedPayloads, WirePayloads))
    /\ [][nDispatched' # nDispatched =>
             /\ nDispatched < Len(peerFrames)
             /\ fret = Yield(peerFrames[nDispatched + 1])
             /\ \/ invocations' = invocations
                \/ /\ Len(invocations') = Len(invocations) + 1
                   /\ SubSeq(invocations', 1, Len(invocations)) = invocations
                   /\ invocations'[Len(invocations')].payload =
                         peerFrames[nDispatched + 1].payload]_vars

\* A frame on one channel and then a frame on another, each with its own
\* handler: the two handlers were invoked in that order.
C11_Witness ==
    /\ nDispatched = 2
    /\ peerFrames[1].header.channel_id # peerFrames[2].header.channel_id
    /\ Len(invocations) = 2
    /\ invocations[1].handler # invocations[2].handler
    /\ invocations[1].payload = peerFrames[1].payload
    /\ invocations[2].payload = peerFrames[2].payload
    /\ invocations[1].payload # invocations[2].payload


\* c mod 2^32 of a u64 c, as a u32
Mod2p32(c) == <<c[5], c[6], c[7], c[8]>>

\* C25: a header whose channel-id varint carries c, whatever c below
\* 2^62, is decoded without error to channel_id = c mod 2^32: every frame
\* of the peer is yielded with that channel id, and its dispatch goes by
\* it, to the handler registered for c mod 2^32, else to the default
\* handler, so that frames whose wire channel ids differ by a multiple of
\* 2^32 are dispatched alike.
C25_ChannelTruncation ==
    /\ [](\A i \in 1..Len(yielded) :
             /\ yielded[i].tag = "Some" =>
                   /\ i <= Len(peerFrames)
                   /\ yielded[i].header.channel_id = Mod2p32(peerFrames[i].channel)
                   /\ yielded[i].payload = peerFrames[i].payload
             /\ yielded[i].tag = "Err" =>
                   yielded[i].msg \in {"read error",
                                       "Stream closed with partial frame data"})
    /\ [][nDispatched' # nDispatched =>
             LET f == peerFrames[nDispatched + 1]
                 ch == Mod2p32(f.channel)
             IN  /\ ch \in DOMAIN router.handlers =>
                       invocations' =
                          Append(invocations, Invocation(router.handlers[ch], f.payload))
                 /\ (ch \notin DOMAIN router.handlers /\ router.default_handler # NoHandler) =>
                       invocations' =
                          Append(invocations, Invocation(router.default_handler, f.payload))
                 /\ (ch \notin DOMAIN router.handlers /\ router.default_handler = NoHandler) =>
                       invocations' = invocations]_vars

\* With a handler registered for channel 7 and a default handler, the
\* frames of the wire channels 2^32 + 7 and 2^62 - 2^32 + 7 have both
\* gone to the handler of channel 7.
C25_Witness ==
    /\ nDispatched = 2
    /\ peerFrames[1].channel = <<0, 0, 0, 1, 0, 0, 0, 7>>
    /\ peerFrames[2].channel = <<63, 255, 255, 255, 0, 0, 0, 7>>
    /\ U32Lit(7) \in DOMAIN router.handlers
    /\ router.default_handler # NoHandler
    /\ invocations = <<Invocation(router.handlers[U32Lit(7)], <<33>>),
                       Invocation(router.handlers[U32Lit(7)], <<33>>)>>
-----------------------------------------------------------------------------
(* Registration claims. *)

\* The entry i of tables is the entry before it with one handler replaced
Replaces(i) ==
    LET before == tables[i - 1].router
        after == tables[i].router
        ch == tables[i].channel_id
    IN  IF tables[i].kind = "on"
        THEN /\ DOMAIN after.handlers = DOMAIN before.handlers \cup {ch}
             /\ after.handlers[ch] = tables[i].callback
             /\ \A c \in DOMAIN before.handlers : c # ch => after.handlers[c] = before.handlers[c]
             /\ after.default_handler = before.default_handler
        ELSE /\ after.default_handler = tables[i].callback
             /\ after.handlers = before.handlers

\* C22: on(channel_id, handler) and on_any(handler) replace the previous
\* entry, on_any leaving every per-channel handler and on leaving the
\* default and the other channels as they were; whatever the interleaving
\* with the reader actor, what a dispatch invokes is what the rule gives on
\* one of the tables that existed between its start and its end, a table
\* that holds every registration whose call had returned when it started.
C22_RegistrationAtomic ==
    /\ \A i \in 2..Len(tables) : Replaces(i)
    /\ router = tables[Len(tables)].router
    /\ lastDisp # NoDispatch =>
          \E k \in lastDisp.start..lastDisp.end :
             /\ lastDisp.floor <= k
             /\ lastDisp.calls =
                   dispatch(tables[k].router, lastDisp.header, lastDisp.payload)

\* A frame of a channel without handler was dispatched while two on_any
\* calls were under way, one returned before the dispatch started and one
\* completed during it: the frame went to the handler of the second.
C22_Witness ==
    /\ lastDisp # NoDispatch
    /\ LET d == lastDisp
       IN  /\ d.floor = 2
           /\ d.start = 2
           /\ d.end = 3
           /\ tables[2].kind = "on_any"
           /\ tables[3].kind = "on_any"
           /\ tables[2].callback # tables[3].callback
           /\ d.calls = <<[handler |-> tables[3].callback, payload |-> d.payload]>>
-----------------------------------------------------------------------------
(* Handshake claims. *)

\* What the client has written on the handshake stream is one frame, of
\* type RkyvAligned on channel 0, whose payload is the archive of
\* Hello{token}, and nothing else.
SentOneHello ==
    LET bytes == Flatten(c2s)
        d == FrameHeader_decode(bytes)
    IN  /\ IsOk(d)
        /\ d.val.header.frame_type = RkyvAligned
        /\ d.val.header.channel_id = <<0, 0, 0, 0>>
        /\ d.val.header.length = U64Lit(Len(bytes) - d.val.len)
        /\ rkyv_from_bytes(SliceFrom(bytes, d.val.len)) = Ok(AuthHello(token))

\* read_frame has returned the server's response frame, which is the
\* first frame of the stream.
Responded == Len(yielded) = 1 /\ fret.tag = "Some" /\ fret = Yield(peerFrames[1])
Response == rkyv_from_bytes(fret.payload)

\* C12: connect reads the stream only after it has written exactly one
\* Hello frame (RkyvAligned, channel 0) and finished its send half, and
\* calls read_frame once; it returns the connection exactly when that
\* call returned a frame whose payload is Ok; on Fail{reason} it returns
\* the error "Authentication Failed" with the reason; on a Hello, on a
\* stream closed before a frame, on a payload that is no archive (and on
\* any transport or framing error) it returns another error.
C12_HandshakeOutcomes ==
    /\ Len(yielded) <= 1
    /\ cfin <= 1
    /\ (cpc = "read" \/ yielded # <<>>) => SentOneHello /\ cfin = 1
    /\ cpc = "done" <=> cret # NoResult
    /\ cpc = "done" =>
          /\ cret = Connection <=> (Responded /\ Response = Ok(AuthOk))
          /\ cret # Connection => cret.tag = "Err"
          /\ \A r \in {<<>>, <<110, 111>>} :
                (Responded /\ Response = Ok(AuthFail(r)))
                    => cret = Anyhow("Authentication Failed", r)
          /\ ~(Responded /\ IsOk(Response) /\ Response.val.kind = "Fail")
                => cret = Connection \/ cret.msg # "Authentication Failed"

\* The server answered Fail{"no"} and then sent another frame: connect
\* has returned the error carrying "no", having read one frame only.
C12_Witness ==
    /\ cpc = "done"
    /\ Len(peerFrames) = 2
    /\ Responded
    /\ cret = Anyhow("Authentication Failed", <<110, 111>>)
    /\ cfin = 1
    /\ token = <<97, 98, 99>>

\* Something of the Governor exists: a session stream, a task, a holder
\* of the queue, a message taken or a byte written.
GovernorStarted ==
    \/ session > 0
    \/ spawned # {}
    \/ alive # {}
    \/ nSends > 0
    \/ wire # <<>>
    \/ wpc # "recv"

\* C13: nothing of the Governor exists unless the handshake has returned
\* Ok: the session stream (at most one) is opened, the tasks are spawned
\* and frames are written only then; when the handshake has failed,
\* EasyClient::connect returns its error and nothing is opened, spawned
\* or written, then or later; and the client is returned only with the
\* session stream open and both tasks spawned.
C13_AuthBeforeGovernor ==
    /\ GovernorStarted => cret = Connection
    /\ session <= 1
    /\ (cpc = "done" /\ cret # Connection) =>
          /\ ~GovernorStarted
          /\ epc \in {"handshake", "failed"}
          /\ epc = "failed" => eret = cret
    /\ eret = Client <=> epc = "running"
    /\ eret = Client => session = 1 /\ spawned = {"writer", "reader"}
    /\ epc = "failed" => eret.tag = "Err" /\ ~GovernorStarted

\* The handshake returned Ok, the client was returned, and the writer
\* has written the frame of a message sent on channel 7.
C13_Witness ==
    /\ cret = Connection
    /\ eret = Client
    /\ FramesWritten = <<1>>
    /\ WireBytes = MessageFrame(OutboundMessage(1, U32Lit(7), Ping))

\* The server has read one frame on the handshake stream, a Hello, and
\* has written one response frame, Ok or Fail, and nothing else.
HelloRead ==
    /\ Len(yielded) = 1
    /\ fret.tag = "Some"
    /\ IsOk(rkyv_from_bytes(fret.payload))
    /\ rkyv_from_bytes(fret.payload).val.kind = "Hello"

OneResponseSent ==
    LET bytes == Flatten(s2c)
        d == FrameHeader_decode(bytes)
        m == rkyv_from_bytes(SliceFrom(bytes, d.val.len))
    IN  /\ IsOk(d)
        /\ d.val.header.length = U64Lit(Len(bytes) - d.val.len)
        /\ IsOk(m)
        /\ m.val.kind \in {"Ok", "Fail"}

\* C14: the server is in its echo loop, or serves an echo stream, only
\* if it has read exactly one Hello frame on the handshake stream and
\* sent exactly one Ok or Fail in response.
C14_AuthBeforeEcho ==
    (spc = "echo" \/ echoStreams > 0) => HelloRead /\ OneResponseSent

\* The peer closed the handshake stream without sending a frame:
\* read_frame returned None, nothing was sent in response, and the
\* server serves an echo stream.
C14_Witness ==
    /\ yielded = <<NoFrame>>
    /\ received = <<>>
    /\ s2c = <<>>
    /\ spc = "echo"
    /\ echoStreams > 0

-----------------------------------------------------------------------------
(* Session claims. *)

\* reader_loop has left its loop, writer_loop has returned
ReaderTerminated == fpc = "closed"
WriterTerminated == wpc = "done"

\* A step of the writer actor, a step of the reader actor
WriterStepped == <<wpc, nDequeued, wire, finishes>>' # <<wpc, nDequeued, wire, finishes>>
ReaderStepped == <<fpc, callReads, nDispatched>>' # <<fpc, callReads, nDispatched>>

\* C23: the two actors end independently.  The outbound queue is closed
\* by the end of the writer actor only, so after the reader actor has
\* ended (clean end or error) a send call still succeeds, the writer
\* actor can still take each of its steps and every accepted message is
\* still written or met by a write error; after the writer actor has
\* ended the reader actor can still call read_frame, read the stream and
\* dispatch, and it runs to the end of its stream; and no step of one
\* actor changes anything of the other.
C23_IndependentTermination ==
    /\ [](rxClosed => WriterTerminated)
    /\ [][~WriterTerminated =>
             /\ \A p \in Producers : sender'[p].res # "Closed"
             /\ nSends' # nSends =>
                   /\ Len(accepted') = Len(accepted) + 1
                   /\ queue' = Append(queue, accepted'[Len(accepted')])
                   /\ \E p \in Producers : sender'[p] = SenderIdle("Ok", FALSE)]_vars
    /\ [](ReaderTerminated /\ writer_ready => ENABLED WriterSteps)
    /\ [](WriterTerminated /\ fpc \in {"idle", "returned"} => ENABLED ReaderSteps)
    /\ [](WriterTerminated /\ fpc = "reading" /\ unsent # <<>> =>
             ENABLED (read_frame_some /\ UNCHANGED <<codecVars, writerVars, readerVars, clientVars, serverVars, lockVars>>))
    /\ [][WriterStepped => UNCHANGED <<framerVars, readerVars>>]_vars
    /\ [][ReaderStepped => UNCHANGED writerVars]_vars
    /\ <>[](WriterTerminated \/ (wpc = "recv" /\ queue = <<>> /\ nDequeued = Len(accepted)))
    /\ <>[](ReaderTerminated /\ nDispatched = FramesReturned)

\* The reader actor has ended on the clean end of its stream, two frames
\* dispatched, before any message was sent; since then two send calls
\* have succeeded and the writer actor has written the first message and
\* the header of the second.
C23_Witness ==
    /\ ReaderTerminated
    /\ fret = NoFrame
    /\ nDispatched = 2
    /\ Len(accepted) = 2
    /\ \E p \in Producers : sender[p].res = "Ok"
    /\ FramesWritten = <<accepted[1].id>>
    /\ wpc = "write_payload"
    /\ ~rxClosed
-----------------------------------------------------------------------------
(* Client and server together: EasyClient::connect against handle_client,  *)
(* then sends through the Governor to the echo task.  The three Framers    *)
(* (handle_client's on the handshake stream, connect's on the same stream, *)
(* the echo task's on the session stream) live one after the other: each   *)
(* is made by Framer::new() after the one before it has returned its last  *)
(* result.  unsent holds the bytes in flight to the Framer that reads next.*)

\* Framer::new()
Framer_new ==
    /\ buffer' = <<>>
    /\ received' = <<>>
    /\ fpc' = "idle"
    /\ fret' = NoResult
    /\ yielded' = <<>>
    /\ callBuf0' = <<>>
    /\ callReads' = 0
    /\ UNCHANGED peerFrames

\* The bytes the write_all of this step put on the stream
Written(before, after) ==
    IF Len(after) > Len(before) THEN after[Len(after)] ELSE <<>>

\* The bytes of this step's write travel to the reading Framer
InFlight(bytes) ==
    /\ unsent' = unsent \o bytes
    /\ UNCHANGED <<buffer, received, peerFrames, fpc, fret, yielded, callBuf0, callReads>>

\* handle_client has the handshake stream and has not returned from its
\* read_frame; connect reads the response; the echo task serves the
\* session stream
ServerReads == spc = "read"
ClientReads == cpc = "read" /\ spc \notin {"accept", "read"}
EchoReads == echoStreams > 0

\* The steps of OrzattyClient::connect facing handle_client
ConnectSteps ==
    \/ (epc = "handshake" /\ connect_open)
          /\ UNCHANGED <<codecVars, framerVars, writerVars, readerVars, serverVars, lockVars>>
    \/ connect_write_header
          /\ InFlight(IF spc \in {"accept", "read"} THEN Written(c2s, c2s') ELSE <<>>)
          /\ UNCHANGED <<codecVars, writerVars, readerVars, serverVars, lockVars>>
    \/ connect_write_payload
          /\ InFlight(IF spc \in {"accept", "read"} THEN Written(c2s, c2s') ELSE <<>>)
          /\ UNCHANGED <<codecVars, writerVars, readerVars, serverVars, lockVars>>
    \/ connect_finish /\ UNCHANGED <<codecVars, framerVars, writerVars, readerVars, serverVars, lockVars>>
    \/ (ClientReads /\ connect_read_call)
          /\ UNCHANGED <<codecVars, writerVars, readerVars, clientVars, serverVars, lockVars>>
    \/ (ClientReads /\ read_frame_some)
          /\ UNCHANGED <<codecVars, writerVars, readerVars, clientVars, serverVars, lockVars>>
    \/ (ClientReads /\ spc = "failed" /\ read_frame_error)
          /\ UNCHANGED <<codecVars, writerVars, readerVars, clientVars, serverVars, lockVars>>
    \/ connect_result /\ Framer_new /\ unsent' = <<>>
          /\ UNCHANGED <<codecVars, writerVars, readerVars, serverVars, lockVars>>

\* The steps of the handshake in handle_client facing connect
HandleClientSteps ==
    \/ server_accept
          /\ unsent' = (IF spc' = "failed" THEN <<>> ELSE unsent)
          /\ UNCHANGED <<buffer, received, peerFrames, fpc, fret, yielded, callBuf0, callReads>>
          /\ UNCHANGED <<codecVars, writerVars, readerVars, clientVars, lockVars>>
    \/ server_read_call
          /\ UNCHANGED <<codecVars, writerVars, readerVars, clientVars, serverVars, lockVars>>
    \/ (ServerReads /\ read_frame_some)
          /\ UNCHANGED <<codecVars, writerVars, readerVars, clientVars, serverVars, lockVars>>
    \/ (ServerReads /\ cfin > 0 /\ unsent = <<>> /\ read_frame_end)
          /\ UNCHANGED <<codecVars, writerVars, readerVars, clientVars, serverVars, lockVars>>
    \/ (ServerReads /\ cret.tag = "Err" /\ read_frame_error)
          /\ UNCHANGED <<codecVars, writerVars, readerVars, clientVars, serverVars, lockVars>>
    \/ server_auth /\ Framer_new /\ unsent' = <<>>
          /\ UNCHANGED <<codecVars, writerVars, readerVars, clientVars, lockVars>>
    \/ server_write_header
          /\ InFlight(IF cpc # "done" THEN Written(s2c, s2c') ELSE <<>>)
          /\ UNCHANGED <<codecVars, writerVars, readerVars, clientVars, lockVars>>
    \/ server_write_payload
          /\ InFlight(IF cpc # "done" THEN Written(s2c, s2c') ELSE <<>>)
          /\ UNCHANGED <<codecVars, writerVars, readerVars, clientVars, lockVars>>

\* The writer actor writing to the session stream
SessionWriterSteps ==
    \/ ("writer" \in spawned /\ writer_recv)
          /\ UNCHANGED <<codecVars, framerVars, readerVars, clientVars, serverVars, lockVars>>
    \/ ("writer" \in spawned /\ writer_write_header)
          /\ InFlight(wire'[Len(wire')].bytes)
          /\ UNCHANGED <<codecVars, readerVars, clientVars, serverVars, lockVars>>
    \/ ("writer" \in spawned /\ writer_write_payload)
          /\ InFlight(wire'[Len(wire')].bytes)
          /\ UNCHANGED <<codecVars, readerVars, clientVars, serverVars, lockVars>>
    \/ ("writer" \in spawned /\ writer_finish)
          /\ UNCHANGED <<codecVars, framerVars, readerVars, clientVars, serverVars, lockVars>>

\* handle_client's echo loop: accept_bi returns the session stream once
\* data has come on it (the client opens no other stream), and the echo
\* task reads frames from it until the stream ends or fails
EchoSteps ==
    \/ (echoStreams < session /\ unsent # <<>> /\ server_accept_echo)
          /\ UNCHANGED <<codecVars, framerVars, writerVars, readerVars, clientVars, lockVars>>
    \/ (EchoReads /\ read_frame_call)
          /\ UNCHANGED <<codecVars, writerVars, readerVars, clientVars, serverVars, lockVars>>
    \/ (EchoReads /\ read_frame_some)
          /\ UNCHANGED <<codecVars, writerVars, readerVars, clientVars, serverVars, lockVars>>
    \/ (EchoReads /\ finishes > 0 /\ unsent = <<>> /\ read_frame_end)
          /\ UNCHANGED <<codecVars, writerVars, readerVars, clientVars, serverVars, lockVars>>
    \/ (EchoReads /\ (spc = "failed" \/ WriteFailed) /\ read_frame_error)
          /\ UNCHANGED <<codecVars, writerVars, readerVars, clientVars, serverVars, lockVars>>
    \/ (EchoReads /\ server_echo)
          /\ UNCHANGED <<codecVars, writerVars, readerVars, clientVars, lockVars>>

\* A client calls EasyClient::connect with a token while the server
\* waits for a connection
InitEndToEnd ==
    /\ token \in Tokens
    /\ cpc = "start"
    /\ c2s = <<>>
    /\ cfin = 0
    /\ cret = NoResult
    /\ epc = "start"
    /\ session = 0
    /\ spawned = {}
    /\ eret = NoResult
    /\ FramerIdle
    /\ WriterIdle
    /\ ServerIdle
    /\ HeaderIdle /\ VarintIdle /\ FuzzIdle /\ ReaderIdle /\ LockIdle

NextEndToEnd ==
    \/ EasyConnectSteps
    \/ ConnectSteps
    \/ HandleClientSteps
    \/ SendSteps(SetupSends, {U32Lit(7)}, {Ping})
    \/ SessionWriterSteps
    \/ EchoSteps

\* The writer actor once spawned, as in SpecWriter
session_writer_turn == "writer" \in spawned /\ writer_turn

\* handle_client in its echo loop can take a step: accept_bi can return.
\* This is ENABLED of its step in EchoSteps.
echo_loop_ready == spc = "echo" /\ echoStreams < session /\ unsent # <<>>

\* A step of handle_client, told by its position and the count of the
\* streams it has accepted
echo_loop_turn ==
    /\ echo_loop_ready
    /\ spc' \in {"echo", "failed"}
    /\ echoStreams' \in {echoStreams, echoStreams + 1}
    /\ <<spc, echoStreams>>' # <<spc, echoStreams>>

\* The echo task can take a step: it is about to call read_frame or to
\* echo a frame, or stream.read can return (data, the end, an error).
\* This is ENABLED of its steps in EchoSteps.
echo_task_ready ==
    /\ EchoReads
    /\ \/ fpc \in {"idle", "returned"}
       \/ /\ fpc = "reading"
          /\ unsent # <<>> \/ finishes > 0 \/ spc = "failed" \/ WriteFailed

\* A step of the echo task, told by its position in read_frame and the
\* count of its reads
echo_task_turn ==
    /\ echo_task_ready
    /\ fpc' \in {"idle", "reading", "returned", "closed"}
    /\ callReads' \in {0, callReads, callReads + 1}
    /\ <<fpc, callReads>>' # <<fpc, callReads>>

\* The writer actor, handle_client and the echo task are tasks of the
\* runtime, polled whenever they can take a step; data written to the
\* stream reaches the reader
SpecEndToEnd ==
    /\ InitEndToEnd
    /\ [][NextEndToEnd]_vars
    /\ WF_<<wpc, nDequeued>>(session_writer_turn)
    /\ WF_<<spc, echoStreams>>(echo_loop_turn)
    /\ WF_<<fpc, callReads>>(echo_task_turn)

\* The frames the Framer has returned so far
FramesYielded == SelectSeq(yielded, LAMBDA r : r.tag = "Some")

\* The client authenticated with the token "abc" and the server replied
\* Ok; the client then sent "ping" on channel 7 and the Governor took
\* it; no write of the writer actor failed and handle_client is running
PingSent ==
    /\ token = <<97, 98, 99>>
    /\ OneResponseSent
    /\ eret = Client
    /\ Len(accepted) = 1
    /\ accepted[1].channel_id = U32Lit(7)
    /\ accepted[1].data = Ping
    /\ ~WriteFailed
    /\ sret = NoResult

\* The one frame the echo task's Framer is to yield
IsPingFrame(r) ==
    /\ r.tag = "Some"
    /\ r.header.channel_id = U32Lit(7)
    /\ r.header.frame_type = RawBinary
    /\ r.header.length = U64Lit(4)
    /\ r.payload = Ping

\* The frame the Framer is to yield for the message msg of the Governor
FrameOf(msg) == SomeFrame(writer_header(msg), msg.data)

\* C17: when the client has authenticated with Hello{token: "abc"}, the
\* server has replied Ok and the client has sent "ping" on channel 7
\* through the Governor, the Framer of the echo task on the session
\* stream eventually yields exactly one frame, with channel_id 7,
\* frame_type RawBinary, length 4 and payload "ping"; and at no time has
\* it yielded anything but the frames of the messages the Governor took,
\* one each and in their order.
C17_EndToEnd ==
    /\ [](EchoReads => /\ Len(FramesYielded) <= Len(accepted)
                       /\ \A i \in 1..Len(FramesYielded) :
                             FramesYielded[i] = FrameOf(accepted[i]))
    /\ <>[](PingSent => /\ EchoReads
                        /\ Len(FramesYielded) = 1
                        /\ IsPingFrame(FramesYielded[1]))

\* The scenario has run: the frame was yielded and echoed, and the echo
\* task waits in read_frame for more.
C17_Witness ==
    /\ PingSent
    /\ EchoReads
    /\ Len(FramesYielded) = 1
    /\ IsPingFrame(FramesYielded[1])
    /\ Len(echoed) = 2
    /\ fpc = "reading"

=============================================================================
